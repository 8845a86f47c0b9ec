-------------------------- MODULE RequestPathProofs -------------------------
(***************************************************************************)
(* What a request meets on its way, for any number of requests: every      *)
(* caller of the policy pool gets its own answer and every worker process  *)
(* has one owner (PoolSound), the handler sends to an origin only what     *)
(* every check of the route let pass (PipelineSound), the response cache   *)
(* serves nothing that an invalidation withdrew (CacheCoherent), keys of a *)
(* remote provider are trusted no longer than their lifetime               *)
(* (KeysDisciplined), and a verified token admits no longer than its       *)
(* deadline and the policy it was admitted under (SessionsBounded).        *)
(***************************************************************************)
EXTENDS PolicyPool, HttpPipeline, ResponseCache, RemoteKeys, BearerSessions, FiniteSetTheorems, TLAPS

-----------------------------------------------------------------------------
(* The policy pool *)

----------------------------------------------------------------------------
(* The inductive invariant *)

Call == (Tasks \cup {Unheld}) \X Nat
PoolSteps == {"idle", "scan", "locked", "write", "wait", "answered"}

SlotRecord == [holder : Tasks \cup {Unheld}, process : Processes \cup {NoProcess}, cooling : BOOLEAN]
ProcessRecord == [state : {"unborn", "live", "dead"}, request : Call, response : Call]
TaskRecord == [at : PoolSteps, slot : 1..Slots, left : Int, process : Processes \cup {NoProcess},
               call : Nat, answer : Call]

\* The types of the pool, its processes and its callers.
PoolTypeOK ==
  /\ slot \in [1..Slots -> SlotRecord]
  /\ process \in [Processes -> ProcessRecord]
  /\ task \in [Tasks -> TaskRecord]
  /\ nextSlot \in 0..(Slots - 1) /\ stopping \in 0..(Slots + 1)

\* Caller t owns the process it talks to, and with it the lock of a slot.
Talks(t) == task[t].at \in {"write", "wait"}
Holds(t) == task[t].at \in {"locked", "write", "wait"}

\* A slot's lock has one holder.
LockInv == \A t \in Tasks : Holds(t) => slot[task[t].slot].holder = t

\* A process rests in at most one slot or is talked to by at most one
\* caller, never both, and a live one is not forgotten.
OwnInv ==
  /\ \A t \in Tasks : Talks(t) =>
       /\ task[t].process \in Processes /\ process[task[t].process].state # "unborn"
       /\ \A s \in 1..Slots : slot[s].process # task[t].process
       /\ slot[task[t].slot].process = NoProcess
  /\ \A t, u \in Tasks : Talks(t) /\ Talks(u) /\ task[t].process = task[u].process => t = u
  /\ \A r, s \in 1..Slots :
       slot[s].process \in Processes /\ slot[r].process = slot[s].process => r = s
  /\ \A s \in 1..Slots :
       slot[s].process \in Processes => process[slot[s].process].state # "unborn"
  /\ \A p \in Processes : process[p].state = "live" =>
       (\E s \in 1..Slots : slot[s].process = p) \/ (\E t \in Tasks : Talks(t) /\ task[t].process = p)

\* The pipes of a process are empty, or carry the question or the answer of
\* the one caller that waits for it.
Silent(p) == process[p].request = NoCall /\ process[p].response = NoCall
Serves(p, t) ==
  /\ task[t].at = "wait" /\ task[t].process = p
  /\ \/ process[p].request = CallOf(t) /\ process[p].response = NoCall
     \/ process[p].request = NoCall /\ process[p].response = CallOf(t)
PipeInv == \A p \in Processes : Silent(p) \/ \E t \in Tasks : Serves(p, t)

\* A slot that shutdown has passed has no process and gets none.
CloseInv ==
  /\ stopping # 0 => closed
  /\ \A s \in 1..Slots : s < stopping =>
       slot[s].process = NoProcess /\ \A t \in Tasks : Talks(t) => task[t].slot # s

PoolInv == PoolTypeOK /\ LockInv /\ OwnInv /\ PipeInv /\ CloseInv /\ OwnAnswer

\* A caller's call is not the empty pipe.
LEMMA CallIsNoCall == \A t \in Tasks : task[t].call \in Nat => CallOf(t) # NoCall /\ CallOf(t) \in Call
  BY PoolAssumption DEF CallOf, NoCall, Call

\* No call is a call's value, and no process a process.
LEMMA NoCallTyped == NoCall \in Call /\ NoProcess \notin Processes
  BY PoolAssumption DEF NoCall, Call, NoProcess, Processes

\* The slot tried next is a slot.
LEMMA SlotAfterTyped ==
  ASSUME NEW s \in 1..Slots
  PROVE  SlotAfter(s) \in 1..Slots
  BY PoolAssumption DEF SlotAfter

\* The rotating index stays within the pool.
LEMMA NextSlotTyped ==
  ASSUME NEW s \in 0..(Slots - 1)
  PROVE  (s + 1) % Slots \in 0..(Slots - 1) /\ s + 1 \in 1..Slots
  BY PoolAssumption

\* The task that is idle.
LEMMA IdleTyped == IdleTask \in TaskRecord /\ IdleTask.at = "idle"
  BY PoolAssumption, NoCallTyped DEF IdleTask, TaskRecord, PoolSteps

\* The invariant holds initially.
LEMMA InitHolds == PoolInit => PoolInv
<1> SUFFICES ASSUME PoolInit PROVE PoolInv
  OBVIOUS
<1>1. PoolTypeOK
  <2>1. slot \in [1..Slots -> SlotRecord]
    BY DEF PoolInit, SlotRecord
  <2>2. process \in [Processes -> ProcessRecord]
    BY NoCallTyped DEF PoolInit, ProcessRecord
  <2>3. task \in [Tasks -> TaskRecord]
    BY IdleTyped DEF PoolInit
  <2>4. nextSlot \in 0..(Slots - 1) /\ stopping \in 0..(Slots + 1)
    BY PoolAssumption DEF PoolInit
  <2> QED
    BY <2>1, <2>2, <2>3, <2>4 DEF PoolTypeOK
<1>2. LockInv /\ OwnInv /\ OwnAnswer
  BY NoCallTyped DEF PoolInit, LockInv, OwnInv, OwnAnswer, IdleTask, Holds, Talks
<1>3. PipeInv
  BY DEF PoolInit, PipeInv, Silent
<1>4. CloseInv
  BY DEF PoolInit, CloseInv
<1> QED
  BY <1>1, <1>2, <1>3, <1>4 DEF PoolInv

----------------------------------------------------------------------------
(* Callers *)

\* Caller t ends or moves on without owning a process, before and after; the others stay.
Elsewhere(t) ==
  /\ task' \in [Tasks -> TaskRecord] /\ \A u \in Tasks \ {t} : task'[u] = task[u]
  /\ ~Talks(t) /\ ~Talks(t)'

\* No process changes; a dead one may leave its slot.
Resting ==
  /\ \A s \in 1..Slots :
       \/ slot'[s].process = slot[s].process
       \/ (~Lives(slot[s].process) /\ slot'[s].process = NoProcess)
  /\ UNCHANGED <<process, stopping>> /\ (closed => closed')

\* What such a step keeps when no process changes either.
LEMMA ElsewhereKeeps ==
  ASSUME PoolInv, NEW t \in Tasks, Elsewhere(t), Resting
  PROVE  OwnInv' /\ PipeInv' /\ CloseInv'
<1> USE DEF Resting
<1>1. \A u \in Tasks : Talks(u) <=> Talks(u)'
  BY DEF Elsewhere, Talks
<1>2. \A u \in Tasks : Talks(u) => task'[u] = task[u]
  BY DEF Elsewhere
<1>3. OwnInv'
  <2>1. \A p \in Processes, s \in 1..Slots : slot'[s].process = p => slot[s].process = p
    BY NoCallTyped
  <2>2. \A u \in Tasks : Talks(u)' =>
          /\ task'[u].process \in Processes /\ process'[task'[u].process].state # "unborn"
          /\ \A s \in 1..Slots : slot'[s].process # task'[u].process
          /\ slot'[task'[u].slot].process = NoProcess
    <3> SUFFICES ASSUME NEW u \in Tasks, Talks(u)'
                 PROVE  /\ task'[u].process \in Processes /\ process'[task'[u].process].state # "unborn"
                        /\ \A s \in 1..Slots : slot'[s].process # task'[u].process
                        /\ slot'[task'[u].slot].process = NoProcess
      OBVIOUS
    <3>1. task'[u] = task[u] /\ Talks(u)
      BY <1>1, <1>2
    <3>2. /\ task[u].process \in Processes /\ process[task[u].process].state # "unborn"
          /\ \A s \in 1..Slots : slot[s].process # task[u].process
          /\ slot[task[u].slot].process = NoProcess
      BY <3>1 DEF PoolInv, OwnInv
    <3>3. task[u].slot \in 1..Slots
      BY DEF PoolInv, PoolTypeOK, TaskRecord
    <3>4. slot'[task[u].slot].process = NoProcess
      BY <3>2, <3>3
    <3>5. \A s \in 1..Slots : slot'[s].process # task[u].process
      BY <2>1, <3>2
    <3> QED BY <3>1, <3>2, <3>4, <3>5
  <2>3. \A v, u \in Tasks : Talks(v)' /\ Talks(u)' /\ task'[v].process = task'[u].process => v = u
    BY <1>1, <1>2 DEF PoolInv, OwnInv
  <2>4. /\ \A r, s \in 1..Slots :
             slot'[s].process \in Processes /\ slot'[r].process = slot'[s].process => r = s
        /\ \A s \in 1..Slots :
             slot'[s].process \in Processes => process'[slot'[s].process].state # "unborn"
    BY <2>1 DEF PoolInv, OwnInv
  <2>5. \A p \in Processes : process'[p].state = "live" =>
          \/ \E s \in 1..Slots : slot'[s].process = p
          \/ \E u \in Tasks : Talks(u)' /\ task'[u].process = p
    BY <1>1, <1>2 DEF PoolInv, OwnInv, Lives
  <2> QED
    BY <2>2, <2>3, <2>4, <2>5 DEF OwnInv
<1>4. PipeInv'
  BY DEF PoolInv, PipeInv, Silent, Serves, Elsewhere, CallOf, Talks
<1>5. CloseInv'
  BY <1>1, <1>2 DEF PoolInv, CloseInv
<1> QED
  BY <1>3, <1>4, <1>5

\* Ending one task's call leaves the other tasks.
LEMMA OverTyped ==
  ASSUME PoolTypeOK, NEW t \in Tasks
  PROVE  /\ TaskOver(t) \in [Tasks -> TaskRecord]
         /\ \A u \in Tasks \ {t} : TaskOver(t)[u] = task[u]
         /\ TaskOver(t)[t].at = "idle"
<1>1. [IdleTask EXCEPT !.call = task[t].call] \in TaskRecord
  BY IdleTyped DEF PoolTypeOK, TaskRecord
<1>2. [IdleTask EXCEPT !.call = task[t].call].at = "idle"
  BY DEF IdleTask
<1> QED
  BY <1>1, <1>2 DEF TaskOver, PoolTypeOK

\* A call starts scanning at the next index and holds nothing yet.
LEMMA DispatchKeeps ==
  ASSUME PoolInv, NEW t \in Tasks, Dispatch(t)
  PROVE  PoolInv'
<1> DEFINE begun == [IdleTask EXCEPT !.at = "scan", !.slot = nextSlot + 1,
                                     !.left = Slots, !.call = task[t].call + 1]
<1>1. begun \in TaskRecord /\ begun.at = "scan"
  <2>1. nextSlot + 1 \in 1..Slots /\ task[t].call + 1 \in Nat /\ Slots \in Int
    BY NextSlotTyped, PoolAssumption DEF PoolInv, PoolTypeOK, TaskRecord
  <2> QED
    BY <2>1, NoCallTyped DEF TaskRecord, PoolSteps, IdleTask
<1>2. task' = [task EXCEPT ![t] = begun]
  BY DEF Dispatch
<1>3. Elsewhere(t) /\ task'[t] = begun
  BY <1>1, <1>2 DEF Elsewhere, Talks, Dispatch, PoolInv, PoolTypeOK
<1>4. PoolTypeOK'
  BY <1>3, NextSlotTyped DEF Dispatch, PoolInv, PoolTypeOK, Elsewhere
<1>5. LockInv' /\ OwnAnswer'
  BY <1>1, <1>3 DEF Dispatch, PoolInv, LockInv, OwnAnswer, Holds, CallOf, Elsewhere
<1>6. Resting
  BY DEF Resting, Dispatch
<1>7. OwnInv' /\ PipeInv' /\ CloseInv'
  BY <1>3, <1>6, ElsewhereKeeps
<1> QED
  BY <1>4, <1>5, <1>7 DEF PoolInv

\* A busy slot is passed over; a free one is locked by this task alone.
LEMMA TrySlotKeeps ==
  ASSUME PoolInv, NEW t \in Tasks, TrySlot(t)
  PROVE  PoolInv'
<1> DEFINE s == task[t].slot
<1>0. s \in 1..Slots /\ SlotAfter(s) \in 1..Slots
  BY SlotAfterTyped DEF PoolInv, PoolTypeOK, TaskRecord
<1>1. CASE task' = TaskOver(t) /\ UNCHANGED slot
  <2>1. Elsewhere(t) /\ task'[t].at = "idle"
    BY <1>1, OverTyped DEF Elsewhere, Talks, TrySlot, PoolInv
  <2>2. PoolTypeOK' /\ LockInv' /\ OwnAnswer'
    BY <1>1, <2>1 DEF TrySlot, PoolInv, PoolTypeOK, LockInv, OwnAnswer, Holds, CallOf, Elsewhere
  <2>3. Resting
    BY <1>1 DEF Resting, TrySlot
  <2>4. OwnInv' /\ PipeInv' /\ CloseInv'
    BY <2>1, <2>3, ElsewhereKeeps
  <2> QED
    BY <2>2, <2>4 DEF PoolInv
<1>2. CASE task' = [task EXCEPT ![t].slot = SlotAfter(s), ![t].left = @ - 1] /\ UNCHANGED slot
  <2>1. Elsewhere(t) /\ task'[t].at = "scan"
    BY <1>0, <1>2 DEF Elsewhere, Talks, TrySlot, PoolInv, PoolTypeOK, TaskRecord
  <2>2. PoolTypeOK' /\ LockInv' /\ OwnAnswer'
    BY <1>2, <2>1 DEF TrySlot, PoolInv, PoolTypeOK, LockInv, OwnAnswer, Holds, CallOf, Elsewhere
  <2>3. Resting
    BY <1>2 DEF Resting, TrySlot
  <2>4. OwnInv' /\ PipeInv' /\ CloseInv'
    BY <2>1, <2>3, ElsewhereKeeps
  <2> QED
    BY <2>2, <2>4 DEF PoolInv
<1>3. CASE /\ slot[s].holder = Unheld /\ slot' = [slot EXCEPT ![s].holder = t]
           /\ task' = [task EXCEPT ![t].at = "locked"]
  <2>1. Elsewhere(t) /\ task'[t].at = "locked" /\ task'[t].slot = s
    BY <1>3 DEF Elsewhere, Talks, TrySlot, PoolInv, PoolTypeOK, TaskRecord, PoolSteps
  <2>2. /\ slot' \in [1..Slots -> SlotRecord] /\ slot'[s].holder = t
        /\ \A r \in 1..Slots : r # s => slot'[r] = slot[r]
        /\ \A r \in 1..Slots : slot'[r].process = slot[r].process
    BY <1>0, <1>3 DEF PoolInv, PoolTypeOK, SlotRecord
  <2>3. LockInv'
    <3>1. \A u \in Tasks \ {t} : Holds(u) => task[u].slot # s
      BY <1>3, PoolAssumption DEF PoolInv, LockInv
    <3>2. \A u \in Tasks \ {t} : Holds(u)' => slot'[task'[u].slot].holder = u
      <4> SUFFICES ASSUME NEW u \in Tasks \ {t}, Holds(u)'
                   PROVE  slot'[task'[u].slot].holder = u
        OBVIOUS
      <4>1. task'[u] = task[u] /\ Holds(u) /\ task[u].slot \in 1..Slots
        BY <2>1 DEF Elsewhere, Holds, PoolInv, PoolTypeOK, TaskRecord
      <4> QED
        BY <2>2, <3>1, <4>1 DEF PoolInv, LockInv
    <3> QED
      BY <2>1, <2>2, <3>2 DEF LockInv
  <2>4. PoolTypeOK' /\ OwnAnswer'
    BY <2>1, <2>2 DEF TrySlot, PoolInv, PoolTypeOK, OwnAnswer, CallOf, Elsewhere
  <2>5. Resting
    BY <2>2 DEF Resting, TrySlot
  <2>6. OwnInv' /\ PipeInv' /\ CloseInv'
    BY <2>1, <2>5, ElsewhereKeeps
  <2> QED
    BY <2>3, <2>4, <2>6 DEF PoolInv
<1> QED
  BY <1>1, <1>2, <1>3 DEF TrySlot

\* Caller t gives the lock of its slot back and leaves the other slots alone.
Frees(t) ==
  /\ Holds(t) /\ ~Holds(t)' /\ \A u \in Tasks \ {t} : task'[u] = task[u]
  /\ \A r \in 1..Slots : r # task[t].slot => slot'[r] = slot[r]

\* The other locks keep their holders.
LEMMA FreesKeepsLocks ==
  ASSUME PoolInv, NEW t \in Tasks, Frees(t)
  PROVE  LockInv'
<1> SUFFICES ASSUME NEW u \in Tasks, Holds(u)'
             PROVE  slot'[task'[u].slot].holder = u
  BY DEF LockInv
<1>1. u # t /\ task'[u] = task[u] /\ Holds(u)
  BY DEF Frees, Holds
<1>2. slot[task[u].slot].holder = u /\ slot[task[t].slot].holder = t
  BY <1>1 DEF Frees, PoolInv, LockInv
<1>3. task[u].slot \in 1..Slots /\ task[u].slot # task[t].slot
  BY <1>1, <1>2 DEF PoolInv, PoolTypeOK, TaskRecord
<1> QED
  BY <1>1, <1>2, <1>3 DEF Frees

\* A slot whose lock is given back.
LEMMA UnlockedTyped ==
  ASSUME PoolTypeOK, NEW s \in 1..Slots
  PROVE  /\ Unlocked(s) \in [1..Slots -> SlotRecord]
         /\ \A r \in 1..Slots : r # s => Unlocked(s)[r] = slot[r]
         /\ \A r \in 1..Slots : Unlocked(s)[r].process = slot[r].process
  BY DEF Unlocked, PoolTypeOK, SlotRecord

\* Caller t takes process p out of its slot, where it rests, or newly spawned.
Takes(t, p) ==
  /\ slot' = [slot EXCEPT ![task[t].slot].process = NoProcess, ![task[t].slot].cooling = TRUE]
  /\ task' = [task EXCEPT ![t].at = "write", ![t].process = p]

\* A task takes a live process that no other task and no other slot has.
LEMMA TakesKeeps ==
  ASSUME PoolInv, NEW t \in Tasks, task[t].at = "locked", ~closed, NEW p \in Processes, Takes(t, p),
         UNCHANGED <<nextSlot, closed, stopping>>, process' \in [Processes -> ProcessRecord],
         \A q \in Processes \ {p} : process'[q] = process[q],
         process'[p].state = "live",
         process'[p].request = process[p].request, process'[p].response = process[p].response,
         \A u \in Tasks : Talks(u) => task[u].process # p,
         \A r \in 1..Slots : slot[r].process = p => r = task[t].slot,
         ~Lives(slot[task[t].slot].process) \/ slot[task[t].slot].process = p
  PROVE  PoolInv'
<1> DEFINE s == task[t].slot
<1>0. s \in 1..Slots /\ ~Talks(t) /\ Holds(t)
  BY DEF PoolInv, PoolTypeOK, TaskRecord, Talks, Holds
<1>1. /\ task' \in [Tasks -> TaskRecord] /\ \A u \in Tasks \ {t} : task'[u] = task[u]
      /\ task'[t].at = "write" /\ task'[t].process = p /\ task'[t].slot = s
  <2>1. task[t] \in TaskRecord /\ "write" \in PoolSteps
    BY DEF PoolInv, PoolTypeOK, PoolSteps
  <2>2. [task[t] EXCEPT !.at = "write", !.process = p] \in TaskRecord
    BY <2>1 DEF TaskRecord
  <2>3. task' = [task EXCEPT ![t] = [task[t] EXCEPT !.at = "write", !.process = p]]
    BY DEF Takes, PoolInv, PoolTypeOK
  <2> QED
    BY <2>1, <2>2, <2>3 DEF PoolInv, PoolTypeOK, TaskRecord
<1>2. /\ slot' \in [1..Slots -> SlotRecord] /\ \A r \in 1..Slots : r # s => slot'[r] = slot[r]
      /\ slot'[s].process = NoProcess
      /\ \A r \in 1..Slots : slot'[r].holder = slot[r].holder
  BY <1>0 DEF Takes, PoolInv, PoolTypeOK, SlotRecord
<1>3. Talks(t)' /\ Holds(t)' /\ \A u \in Tasks \ {t} : (Talks(u) <=> Talks(u)') /\ (Holds(u) <=> Holds(u)')
  BY <1>1 DEF Talks, Holds
<1>4. PoolTypeOK'
  BY <1>1, <1>2 DEF PoolInv, PoolTypeOK
<1>5. LockInv'
  <2> SUFFICES ASSUME NEW u \in Tasks, Holds(u)'
               PROVE  slot'[task'[u].slot].holder = u
    BY DEF LockInv
  <2>1. Holds(u) /\ task'[u].slot = task[u].slot
    BY <1>0, <1>1, <1>3
  <2> QED
    BY <1>2, <2>1 DEF PoolInv, LockInv, PoolTypeOK, TaskRecord
<1>6. OwnInv'
  <2>1. \A q \in Processes, r \in 1..Slots : slot'[r].process = q => slot[r].process = q /\ r # s /\ q # p
    BY <1>2, NoCallTyped
  <2>2. \A q \in Processes : process[q].state # "unborn" => process'[q].state # "unborn"
    BY DEF PoolInv, PoolTypeOK, ProcessRecord
  <2>3. \A u \in Tasks : Talks(u)' =>
          /\ task'[u].process \in Processes /\ process'[task'[u].process].state # "unborn"
          /\ \A r \in 1..Slots : slot'[r].process # task'[u].process
          /\ slot'[task'[u].slot].process = NoProcess
    <3> SUFFICES ASSUME NEW u \in Tasks, Talks(u)', u # t
                 PROVE  /\ task'[u].process \in Processes /\ process'[task'[u].process].state # "unborn"
                        /\ \A r \in 1..Slots : slot'[r].process # task'[u].process
                        /\ slot'[task'[u].slot].process = NoProcess
      BY <1>1, <1>2, <2>1
    <3>1. Talks(u) /\ task'[u] = task[u] /\ task[u].slot \in 1..Slots
      BY <1>1, <1>3 DEF PoolInv, PoolTypeOK, TaskRecord
    <3>2. /\ task[u].process \in Processes /\ process[task[u].process].state # "unborn"
          /\ \A r \in 1..Slots : slot[r].process # task[u].process
          /\ slot[task[u].slot].process = NoProcess
      BY <3>1 DEF PoolInv, OwnInv
    <3> QED
      BY <1>2, <2>1, <2>2, <3>1, <3>2
  <2>4. \A v, u \in Tasks : Talks(v)' /\ Talks(u)' /\ task'[v].process = task'[u].process => v = u
    BY <1>1, <1>3 DEF PoolInv, OwnInv
  <2>5. /\ \A r, q \in 1..Slots :
             slot'[q].process \in Processes /\ slot'[r].process = slot'[q].process => r = q
        /\ \A q \in 1..Slots :
             slot'[q].process \in Processes => process'[slot'[q].process].state # "unborn"
    BY <2>1, <2>2 DEF PoolInv, OwnInv
  <2>6. \A q \in Processes : process'[q].state = "live" =>
          \/ \E r \in 1..Slots : slot'[r].process = q
          \/ \E u \in Tasks : Talks(u)' /\ task'[u].process = q
    <3> SUFFICES ASSUME NEW q \in Processes, process'[q].state = "live", q # p
                 PROVE  \/ \E r \in 1..Slots : slot'[r].process = q
                        \/ \E u \in Tasks : Talks(u)' /\ task'[u].process = q
      BY <1>1, <1>3
    <3>1. process[q].state = "live"
      OBVIOUS
    <3>2. CASE \E r \in 1..Slots : slot[r].process = q
      BY <1>2, <3>1, <3>2, NoCallTyped DEF Lives
    <3>3. CASE \E u \in Tasks : Talks(u) /\ task[u].process = q
      BY <1>0, <1>1, <1>3, <3>3
    <3> QED
      BY <3>1, <3>2, <3>3 DEF PoolInv, OwnInv
  <2> QED
    BY <2>3, <2>4, <2>5, <2>6 DEF OwnInv
<1>7. PipeInv'
  <2> SUFFICES ASSUME NEW q \in Processes
               PROVE  Silent(q)' \/ \E u \in Tasks : Serves(q, u)'
    BY DEF PipeInv
  <2>1. process'[q].request = process[q].request /\ process'[q].response = process[q].response
    OBVIOUS
  <2>2. CASE Silent(q)
    BY <2>1, <2>2 DEF Silent
  <2>3. ASSUME NEW u \in Tasks, Serves(q, u)
        PROVE  Serves(q, u)'
    <3>1. u # t
      BY <2>3 DEF Serves
    <3> QED
      BY <1>1, <2>1, <2>3, <3>1 DEF Serves, CallOf
  <2> QED
    BY <2>2, <2>3 DEF PoolInv, PipeInv
<1>8. CloseInv'
  <2>1. stopping = 0
    BY DEF PoolInv, CloseInv
  <2> QED
    BY <2>1 DEF CloseInv
<1>9. OwnAnswer'
  BY SMTT(30), <1>1 DEF PoolInv, OwnAnswer, CallOf
<1> QED
  BY <1>4, <1>5, <1>6, <1>7, <1>8, <1>9 DEF PoolInv

\* The slot's process is reused, or one is spawned, under the slot's lock.
LEMMA EnterSlotKeeps ==
  ASSUME PoolInv, NEW t \in Tasks, EnterSlot(t)
  PROVE  PoolInv'
<1> DEFINE s == task[t].slot
<1>0. /\ s \in 1..Slots /\ SlotAfter(s) \in 1..Slots /\ ~Talks(t) /\ Holds(t) /\ task[t].at = "locked"
      /\ PoolTypeOK
  BY SlotAfterTyped DEF PoolInv, PoolTypeOK, TaskRecord, EnterSlot, Talks, Holds
<1>1. ASSUME slot' \in [1..Slots -> SlotRecord], \A r \in 1..Slots : r # s => slot'[r] = slot[r],
             \/ slot'[s].process = slot[s].process
             \/ (~Lives(slot[s].process) /\ slot'[s].process = NoProcess),
             UNCHANGED process, task' \in [Tasks -> TaskRecord],
             \A u \in Tasks \ {t} : task'[u] = task[u], task'[t].at \in {"idle", "scan"}
      PROVE  PoolInv'
  <2>1. Elsewhere(t) /\ Frees(t)
    BY <1>0, <1>1 DEF Elsewhere, Frees, Talks, Holds
  <2>2. UNCHANGED <<stopping, nextSlot>> /\ (closed => closed')
    BY DEF EnterSlot
  <2>3. Resting
    BY <1>1, <2>2 DEF Resting
  <2>4. PoolTypeOK' /\ OwnAnswer'
    BY <1>1, <2>2 DEF PoolInv, PoolTypeOK, OwnAnswer, CallOf
  <2> QED
    BY <2>1, <2>3, <2>4, ElsewhereKeeps, FreesKeepsLocks DEF PoolInv
<1>2. CASE slot' = Unlocked(s) /\ task' = TaskOver(t) /\ UNCHANGED process
  BY <1>0, <1>1, <1>2, UnlockedTyped, OverTyped
<1>3. CASE /\ slot' = Unlocked(s) /\ UNCHANGED process
           /\ task' = [task EXCEPT ![t].at = "scan", ![t].slot = SlotAfter(s), ![t].left = @ - 1]
  <2>1. /\ task' \in [Tasks -> TaskRecord] /\ \A u \in Tasks \ {t} : task'[u] = task[u]
        /\ task'[t].at = "scan"
    BY <1>0, <1>3 DEF PoolTypeOK, TaskRecord, PoolSteps
  <2> QED
    BY <1>0, <1>1, <1>3, <2>1, UnlockedTyped
<1>4. CASE /\ ~Lives(slot[s].process)
           /\ slot' = [slot EXCEPT ![s] = [holder |-> Unheld, process |-> NoProcess, cooling |-> TRUE]]
           /\ task' = TaskOver(t) /\ UNCHANGED process
  <2>1. /\ slot' \in [1..Slots -> SlotRecord] /\ \A r \in 1..Slots : r # s => slot'[r] = slot[r]
        /\ slot'[s].process = NoProcess
    BY <1>0, <1>4 DEF PoolTypeOK, SlotRecord
  <2> QED
    BY <1>0, <1>1, <1>4, <2>1, OverTyped
<1>5. CASE ~closed /\ Lives(slot[s].process) /\ Takes(t, slot[s].process) /\ UNCHANGED process
  <2> DEFINE p == slot[s].process
  <2>1. p \in Processes /\ process[p].state = "live"
    BY <1>0, <1>5 DEF Lives, PoolTypeOK, SlotRecord
  <2>2. /\ \A u \in Tasks : Talks(u) => task[u].process # p
        /\ \A r \in 1..Slots : slot[r].process = p => r = s
    BY <1>0, <2>1 DEF PoolInv, OwnInv
  <2>3. /\ UNCHANGED <<nextSlot, closed, stopping>> /\ process' \in [Processes -> ProcessRecord]
        /\ \A q \in Processes : process'[q] = process[q]
    BY <1>5 DEF EnterSlot, PoolInv, PoolTypeOK
  <2> QED
    BY <1>0, <1>5, <2>1, <2>2, <2>3, TakesKeeps
<1>6. ASSUME ~closed, ~Lives(slot[s].process), NEW p \in Unborn, Takes(t, p),
             process' = [process EXCEPT ![p].state = "live"]
      PROVE  PoolInv'
  <2>1. p \in Processes /\ process[p].state = "unborn"
    BY <1>6 DEF Unborn
  <2>2. /\ \A u \in Tasks : Talks(u) => task[u].process # p
        /\ \A r \in 1..Slots : slot[r].process # p
    BY <2>1 DEF PoolInv, OwnInv
  <2>3. /\ UNCHANGED <<nextSlot, closed, stopping>> /\ process' \in [Processes -> ProcessRecord]
        /\ \A q \in Processes \ {p} : process'[q] = process[q]
        /\ process'[p].state = "live" /\ process'[p].request = process[p].request
        /\ process'[p].response = process[p].response
    BY <1>6, <2>1 DEF EnterSlot, PoolInv, PoolTypeOK, ProcessRecord
  <2> QED
    BY <1>0, <1>6, <2>1, <2>2, <2>3, TakesKeeps
<1> QED
  BY <1>2, <1>3, <1>4, <1>5, <1>6 DEF EnterSlot, ClosedNow, Takes

\* The request is written to a process no other task talks to.
LEMMA WriteRequestKeeps ==
  ASSUME PoolInv, NEW t \in Tasks, WriteRequest(t)
  PROVE  PoolInv'
<1>a. Talks(t) /\ task[t].at = "write" /\ task[t].process \in Processes /\ CallOf(t) \in Call
  BY CallIsNoCall DEF WriteRequest, Talks, PoolInv, OwnInv, PoolTypeOK, TaskRecord
<1>b. PICK p \in Processes : p = task[t].process
  BY <1>a
<1>0. Talks(t) /\ task[t].at = "write" /\ p = task[t].process /\ CallOf(t) \in Call
  BY <1>a, <1>b
<1>1. /\ task' \in [Tasks -> TaskRecord] /\ \A u \in Tasks \ {t} : task'[u] = task[u]
      /\ task'[t].at = "wait" /\ task'[t].process = p
      /\ \A u \in Tasks : /\ task'[u].slot = task[u].slot /\ task'[u].process = task[u].process
                          /\ task'[u].call = task[u].call
  BY <1>0 DEF WriteRequest, PoolInv, PoolTypeOK, TaskRecord, PoolSteps
<1>2. /\ process' \in [Processes -> ProcessRecord]
      /\ \A q \in Processes \ {p} : process'[q] = process[q]
      /\ process'[p].request = CallOf(t) /\ process'[p].response = process[p].response
      /\ \A q \in Processes : process'[q].state = process[q].state
  BY <1>0 DEF WriteRequest, PoolInv, PoolTypeOK, ProcessRecord
<1>3. /\ \A u \in Tasks : (Talks(u) <=> Talks(u)') /\ (Holds(u) <=> Holds(u)')
      /\ \A u \in Tasks : CallOf(u)' = CallOf(u)
  BY <1>0, <1>1 DEF Talks, Holds, CallOf
<1>4. PoolTypeOK'
  BY <1>1, <1>2 DEF WriteRequest, PoolInv, PoolTypeOK
<1>5. LockInv' /\ CloseInv'
  BY <1>1, <1>3 DEF WriteRequest, PoolInv, LockInv, CloseInv
<1>6. OwnInv'
  BY <1>1, <1>2, <1>3 DEF WriteRequest, PoolInv, OwnInv
<1>7. PipeInv'
  <2> SUFFICES ASSUME NEW q \in Processes
               PROVE  Silent(q)' \/ \E u \in Tasks : Serves(q, u)'
    BY DEF PipeInv
  <2>1. CASE q = p
    <3>1. Silent(p)
      <4> SUFFICES ASSUME NEW u \in Tasks, Serves(p, u)
                   PROVE  FALSE
        BY <1>0 DEF PoolInv, PipeInv
      <4>1. u = t
        BY <1>0 DEF Serves, Talks, PoolInv, OwnInv
      <4> QED
        BY <1>0, <4>1 DEF Serves
    <3>2. Serves(p, t)'
      BY <1>1, <1>2, <1>3, <3>1 DEF Serves, Silent
    <3> QED
      BY <2>1, <3>2
  <2>2. CASE q # p
    <3>1. ASSUME NEW u \in Tasks, Serves(q, u)
          PROVE  Serves(q, u)'
      BY <1>0, <1>1, <1>2, <1>3, <2>2, <3>1 DEF Serves
    <3>2. Silent(q) => Silent(q)'
      BY <1>2, <2>2 DEF Silent
    <3> QED
      BY <3>1, <3>2 DEF PoolInv, PipeInv
  <2> QED
    BY <2>1, <2>2
<1>8. OwnAnswer'
  BY <1>1, <1>3 DEF PoolInv, OwnAnswer
<1> QED
  BY <1>4, <1>5, <1>6, <1>7, <1>8 DEF PoolInv

\* A caller that talked to process p talks no longer, and gave its lock back;
\* p has nobody else, is left silent, and lives only in the slot it came from.
PartsWith(t, p, s) ==
  /\ p = task[t].process /\ s = task[t].slot /\ Talks(t) /\ ~Holds(t)'
  /\ task' \in [Tasks -> TaskRecord] /\ \A u \in Tasks \ {t} : task'[u] = task[u]
  /\ slot' \in [1..Slots -> SlotRecord] /\ \A r \in 1..Slots : r # s => slot'[r] = slot[r]
  /\ process' \in [Processes -> ProcessRecord]
  /\ \A q \in Processes \ {p} : process'[q] = process[q]
  /\ process'[p].request = NoCall /\ process'[p].response = NoCall
  /\ process'[p].state # "unborn"
  /\ slot'[s].process \in {p, NoProcess}
  /\ process'[p].state = "live" => slot'[s].process = p
  /\ UNCHANGED <<nextSlot, closed, stopping>>

\* A task parts from its process and its slot.
LEMMA PartsKeeps ==
  ASSUME PoolInv, NEW t \in Tasks, NEW p \in Processes, NEW s \in 1..Slots, PartsWith(t, p, s),
         task'[t].at = "answered" => task'[t].answer = CallOf(t)'
  PROVE  PoolInv'
<1>0. /\ p # NoProcess /\ Holds(t)
      /\ \A u \in Tasks : Talks(u) /\ task[u].process = p => u = t
      /\ \A r \in 1..Slots : slot[r].process # p
  BY NoCallTyped DEF PoolInv, PoolTypeOK, TaskRecord, OwnInv, PartsWith, Talks, Holds
<1>1. ~Talks(t)' /\ \A u \in Tasks \ {t} : (Talks(u) <=> Talks(u)')
  BY DEF PartsWith, Talks, Holds
<1>2. PoolTypeOK'
  BY DEF PartsWith, PoolInv, PoolTypeOK
<1>3. Frees(t)
  BY <1>0 DEF PartsWith, Frees
<1>4. LockInv'
  BY <1>3, FreesKeepsLocks
<1>5. OwnInv'
  <2>1. \A q \in Processes, r \in 1..Slots : slot'[r].process = q =>
          (slot[r].process = q /\ r # s /\ q # p) \/ (q = p /\ r = s)
    BY <1>0, NoCallTyped DEF PartsWith
  <2>2. \A u \in Tasks : Talks(u)' =>
          /\ u # t /\ Talks(u) /\ task'[u] = task[u] /\ task[u].process # p
          /\ task[u].slot \in 1..Slots /\ task[u].slot # s
    <3> SUFFICES ASSUME NEW u \in Tasks, Talks(u)'
                 PROVE  /\ u # t /\ Talks(u) /\ task'[u] = task[u] /\ task[u].process # p
                        /\ task[u].slot \in 1..Slots /\ task[u].slot # s
      OBVIOUS
    <3>1. u # t /\ Talks(u) /\ task'[u] = task[u] /\ task[u].process # p
      BY <1>0, <1>1 DEF PartsWith
    <3>2. slot[task[u].slot].holder = u /\ slot[s].holder = t
      BY <1>0, <3>1 DEF PoolInv, LockInv, PartsWith, Talks, Holds
    <3> QED
      BY <3>1, <3>2 DEF PoolInv, PoolTypeOK, TaskRecord
  <2>3. \A u \in Tasks : Talks(u)' =>
          /\ task'[u].process \in Processes /\ process'[task'[u].process].state # "unborn"
          /\ \A r \in 1..Slots : slot'[r].process # task'[u].process
          /\ slot'[task'[u].slot].process = NoProcess
    <3> SUFFICES ASSUME NEW u \in Tasks, Talks(u)'
                 PROVE  /\ task'[u].process \in Processes /\ process'[task'[u].process].state # "unborn"
                        /\ \A r \in 1..Slots : slot'[r].process # task'[u].process
                        /\ slot'[task'[u].slot].process = NoProcess
      OBVIOUS
    <3>1. /\ task[u].process \in Processes /\ process[task[u].process].state # "unborn"
          /\ \A r \in 1..Slots : slot[r].process # task[u].process
          /\ slot[task[u].slot].process = NoProcess
      BY <2>2 DEF PoolInv, OwnInv
    <3> QED
      BY <2>1, <2>2, <3>1 DEF PartsWith
  <2>4. \A v, u \in Tasks : Talks(v)' /\ Talks(u)' /\ task'[v].process = task'[u].process => v = u
    BY <2>2 DEF PoolInv, OwnInv
  <2>5. /\ \A r, q \in 1..Slots :
             slot'[q].process \in Processes /\ slot'[r].process = slot'[q].process => r = q
        /\ \A q \in 1..Slots :
             slot'[q].process \in Processes => process'[slot'[q].process].state # "unborn"
    BY <2>1 DEF PoolInv, OwnInv, PartsWith
  <2>6. \A q \in Processes : process'[q].state = "live" =>
          \/ \E r \in 1..Slots : slot'[r].process = q
          \/ \E u \in Tasks : Talks(u)' /\ task'[u].process = q
    <3> SUFFICES ASSUME NEW q \in Processes, process'[q].state = "live", q # p
                 PROVE  \/ \E r \in 1..Slots : slot'[r].process = q
                        \/ \E u \in Tasks : Talks(u)' /\ task'[u].process = q
      BY <1>0 DEF PartsWith
    <3>1. process[q].state = "live"
      BY DEF PartsWith
    <3>2. CASE \E r \in 1..Slots : slot[r].process = q
      <4>1. slot[s].process = NoProcess /\ q # NoProcess
        BY NoCallTyped DEF PoolInv, OwnInv, PartsWith
      <4> QED
        BY <3>2, <4>1 DEF PartsWith
    <3>3. CASE \E u \in Tasks : Talks(u) /\ task[u].process = q
      BY <1>1, <3>3 DEF PartsWith
    <3> QED
      BY <3>1, <3>2, <3>3 DEF PoolInv, OwnInv
  <2> QED
    BY <2>3, <2>4, <2>5, <2>6 DEF OwnInv
<1>6. PipeInv'
  <2> SUFFICES ASSUME NEW q \in Processes, q # p
               PROVE  Silent(q)' \/ \E u \in Tasks : Serves(q, u)'
    BY DEF PipeInv, Silent, PartsWith
  <2>1. Silent(q) => Silent(q)'
    BY DEF Silent, PartsWith
  <2>2. ASSUME NEW u \in Tasks, Serves(q, u)
        PROVE  Serves(q, u)'
    BY <2>2 DEF Serves, PartsWith, CallOf
  <2> QED
    BY <2>1, <2>2 DEF PoolInv, PipeInv
<1>7. CloseInv'
  <2>1. s >= stopping
    BY <1>0 DEF PoolInv, CloseInv, PoolTypeOK, PartsWith
  <2> QED
    BY <1>0, <1>1, <2>1 DEF PoolInv, CloseInv, PoolTypeOK, PartsWith
<1>8. OwnAnswer'
  BY DEF PoolInv, OwnAnswer, CallOf, PartsWith
<1> QED
  BY <1>2, <1>4, <1>5, <1>6, <1>7, <1>8 DEF PoolInv

\* Killing a process leaves the others.
LEMMA KilledTyped ==
  ASSUME PoolTypeOK, NEW p \in Processes
  PROVE  /\ Killed(p) \in [Processes -> ProcessRecord]
         /\ \A q \in Processes \ {p} : Killed(p)[q] = process[q]
         /\ Killed(p)[p] = [state |-> "dead", request |-> NoCall, response |-> NoCall]
  BY NoCallTyped DEF Killed, PoolTypeOK, ProcessRecord

\* A call that times out, fails or is cancelled kills the process it owns.
LEMMA TerminateKeeps ==
  ASSUME PoolInv, NEW t \in Tasks, Terminate(t) \/ CancelCall(t)
  PROVE  PoolInv'
<1> DEFINE p == task[t].process
           s == task[t].slot
<1>0. /\ Talks(t) /\ p \in Processes /\ s \in 1..Slots /\ PoolTypeOK
      /\ slot[s].process = NoProcess
      /\ process' = Killed(task[t].process) /\ slot' = Unlocked(task[t].slot)
      /\ task' = TaskOver(t) /\ UNCHANGED <<nextSlot, closed, stopping>>
  BY DEF Terminate, CancelCall, PoolInv, OwnInv, PoolTypeOK, TaskRecord, Talks
<1>1. task'[t].at = "idle"
  BY <1>0, OverTyped
<1>2. PartsWith(t, p, s)
  BY <1>0, <1>1, OverTyped, UnlockedTyped, KilledTyped DEF PartsWith, Holds
<1> QED
  BY <1>0, <1>1, <1>2, PartsKeeps

\* The response read is the answer to this task's request.
LEMMA ReadResponseKeeps ==
  ASSUME PoolInv, NEW t \in Tasks, ReadResponse(t)
  PROVE  PoolInv'
<1> DEFINE p == task[t].process
           s == task[t].slot
<1>0. /\ Talks(t) /\ p \in Processes /\ s \in 1..Slots /\ PoolTypeOK /\ p # NoProcess
      /\ process[p].state # "unborn"
  BY NoCallTyped DEF ReadResponse, PoolInv, OwnInv, PoolTypeOK, TaskRecord, Talks
<1>1. process[p].response = CallOf(t) /\ process[p].request = NoCall
  <2>1. \E u \in Tasks : Serves(p, u)
    BY <1>0 DEF ReadResponse, PoolInv, PipeInv, Silent
  <2>2. Serves(p, t)
    BY <1>0, <2>1 DEF PoolInv, OwnInv, Serves, Talks
  <2> QED
    BY <2>2 DEF Serves, ReadResponse
<1>2. /\ task' \in [Tasks -> TaskRecord] /\ \A u \in Tasks \ {t} : task'[u] = task[u]
      /\ task'[t].at = "answered" /\ task'[t].answer = process[p].response
      /\ task'[t].call = task[t].call
  <2>1. task[t] \in TaskRecord /\ process[p].response \in Call /\ "answered" \in PoolSteps
    BY <1>0 DEF PoolTypeOK, ProcessRecord, PoolSteps
  <2>2. [task[t] EXCEPT !.at = "answered", !.answer = process[p].response] \in TaskRecord
    BY <2>1 DEF TaskRecord
  <2>3. task' = [task EXCEPT ![t] = [task[t] EXCEPT !.at = "answered", !.answer = process[p].response]]
    BY DEF ReadResponse, PoolInv, PoolTypeOK
  <2> QED
    BY <2>1, <2>2, <2>3 DEF PoolInv, PoolTypeOK, TaskRecord
<1>3. /\ process' \in [Processes -> ProcessRecord]
      /\ \A q \in Processes \ {p} : process'[q] = process[q]
      /\ process'[p].response = NoCall /\ process'[p].request = process[p].request
      /\ process'[p].state = process[p].state
  BY <1>0, NoCallTyped DEF ReadResponse, PoolTypeOK, ProcessRecord
<1>4. /\ slot' \in [1..Slots -> SlotRecord] /\ \A r \in 1..Slots : r # s => slot'[r] = slot[r]
      /\ slot'[s].process = p
  BY <1>0 DEF ReadResponse, PoolTypeOK, SlotRecord
<1>5. UNCHANGED <<nextSlot, closed, stopping>>
  BY DEF ReadResponse
<1>6. PartsWith(t, p, s)
  BY <1>0, <1>1, <1>2, <1>3, <1>4, <1>5 DEF PartsWith, Holds
<1>7. task'[t].answer = CallOf(t)'
  BY <1>1, <1>2 DEF CallOf
<1> QED
  BY <1>0, <1>6, <1>7, PartsKeeps

\* An answer is returned and the task is idle again.
LEMMA ReturnAnswerKeeps ==
  ASSUME PoolInv, NEW t \in Tasks, ReturnAnswer(t)
  PROVE  PoolInv'
<1>1. /\ task' = TaskOver(t) /\ task[t].at = "answered" /\ PoolTypeOK
      /\ UNCHANGED <<slot, process, nextSlot, stopping>> /\ (closed => closed')
  BY DEF ReturnAnswer, PoolInv
<1>2. Elsewhere(t) /\ task'[t].at = "idle"
  BY <1>1, OverTyped DEF Elsewhere, Talks
<1>3. Resting
  BY <1>1 DEF Resting
<1>4. PoolTypeOK' /\ LockInv' /\ OwnAnswer'
  BY <1>1, <1>2 DEF PoolInv, PoolTypeOK, LockInv, OwnAnswer, Holds, CallOf, Elsewhere
<1> QED
  BY <1>2, <1>3, <1>4, ElsewhereKeeps DEF PoolInv

----------------------------------------------------------------------------
(* Processes, time and shutdown *)

\* A worker answers the request it holds.
LEMMA WorkerAnswersKeeps ==
  ASSUME PoolInv, NEW p \in Processes, WorkerAnswers(p)
  PROVE  PoolInv'
<1>1. /\ process' \in [Processes -> ProcessRecord]
      /\ \A q \in Processes \ {p} : process'[q] = process[q]
      /\ process'[p].request = NoCall /\ process'[p].response = process[p].request
      /\ \A q \in Processes : process'[q].state = process[q].state
  BY NoCallTyped DEF WorkerAnswers, PoolInv, PoolTypeOK, ProcessRecord
<1>2. UNCHANGED <<slot, task, nextSlot, stopping>> /\ (closed => closed') /\ process[p].request # NoCall
  BY DEF WorkerAnswers
<1>3. PoolTypeOK' /\ LockInv' /\ OwnAnswer' /\ CloseInv'
  BY <1>1, <1>2 DEF PoolInv, PoolTypeOK, LockInv, OwnAnswer, CloseInv, Holds, Talks, CallOf
<1>4. OwnInv'
  BY <1>1, <1>2 DEF PoolInv, OwnInv, Talks
<1>5. PipeInv'
  BY <1>1, <1>2 DEF PoolInv, PipeInv, Silent, Serves, CallOf
<1> QED
  BY <1>3, <1>4, <1>5 DEF PoolInv

\* A process dies, and is in no slot it was not in before.
LEMMA DeathKeeps ==
  ASSUME PoolInv, NEW p \in Processes, process' = Killed(p), UNCHANGED task, closed => closed',
         slot' \in [1..Slots -> SlotRecord],
         \A s \in 1..Slots : /\ slot'[s].holder = slot[s].holder
                             /\ slot'[s].process = slot[s].process
                                \/ (slot[s].process = p /\ slot'[s].process = NoProcess)
  PROVE  LockInv' /\ OwnInv' /\ PipeInv' /\ OwnAnswer'
<1>1. /\ \A q \in Processes \ {p} : process'[q] = process[q]
      /\ process'[p].state = "dead" /\ process'[p].request = NoCall /\ process'[p].response = NoCall
  BY KilledTyped DEF PoolInv
<1>2. LockInv' /\ OwnAnswer'
  BY DEF PoolInv, PoolTypeOK, TaskRecord, LockInv, OwnAnswer, Holds, CallOf
<1>3. OwnInv'
  <2>1. \A q \in Processes, s \in 1..Slots : slot'[s].process = q => slot[s].process = q
    BY NoCallTyped
  <2>2. \A q \in Processes : process[q].state # "unborn" => process'[q].state # "unborn"
    BY <1>1
  <2>3. \A u \in Tasks : Talks(u)' =>
          /\ task'[u].process \in Processes /\ process'[task'[u].process].state # "unborn"
          /\ \A s \in 1..Slots : slot'[s].process # task'[u].process
          /\ slot'[task'[u].slot].process = NoProcess
    <3> SUFFICES ASSUME NEW u \in Tasks, Talks(u)'
                 PROVE  /\ task'[u].process \in Processes /\ process'[task'[u].process].state # "unborn"
                        /\ \A s \in 1..Slots : slot'[s].process # task'[u].process
                        /\ slot'[task'[u].slot].process = NoProcess
      OBVIOUS
    <3>1. /\ task'[u] = task[u] /\ task[u].slot \in 1..Slots
          /\ task[u].process \in Processes /\ process[task[u].process].state # "unborn"
          /\ \A s \in 1..Slots : slot[s].process # task[u].process
          /\ slot[task[u].slot].process = NoProcess
      BY DEF PoolInv, OwnInv, Talks, PoolTypeOK, TaskRecord
    <3> QED
      BY <2>1, <2>2, <3>1
  <2>4. \A v, u \in Tasks : Talks(v)' /\ Talks(u)' /\ task'[v].process = task'[u].process => v = u
    BY DEF PoolInv, OwnInv, Talks
  <2>5. /\ \A r, q \in 1..Slots :
             slot'[q].process \in Processes /\ slot'[r].process = slot'[q].process => r = q
        /\ \A q \in 1..Slots :
             slot'[q].process \in Processes => process'[slot'[q].process].state # "unborn"
    BY <2>1, <2>2 DEF PoolInv, OwnInv
  <2>6. \A q \in Processes : process'[q].state = "live" =>
          \/ \E r \in 1..Slots : slot'[r].process = q
          \/ \E u \in Tasks : Talks(u)' /\ task'[u].process = q
    <3> SUFFICES ASSUME NEW q \in Processes, process'[q].state = "live"
                 PROVE  \/ \E r \in 1..Slots : slot'[r].process = q
                        \/ \E u \in Tasks : Talks(u)' /\ task'[u].process = q
      OBVIOUS
    <3>1. q # p /\ process[q].state = "live"
      BY <1>1
    <3> QED
      BY <3>1 DEF PoolInv, OwnInv, Talks
  <2> QED
    BY <2>3, <2>4, <2>5, <2>6 DEF OwnInv
<1>4. PipeInv'
  <2> SUFFICES ASSUME NEW q \in Processes, q # p
               PROVE  Silent(q)' \/ \E u \in Tasks : Serves(q, u)'
    BY <1>1 DEF PipeInv, Silent
  <2>1. Silent(q) => Silent(q)'
    BY <1>1 DEF Silent
  <2>2. ASSUME NEW u \in Tasks, Serves(q, u)
        PROVE  Serves(q, u)'
    BY <1>1, <2>2 DEF Serves, CallOf
  <2> QED
    BY <2>1, <2>2 DEF PoolInv, PipeInv
<1> QED
  BY <1>2, <1>3, <1>4

\* A process may die at any time, with what it was sent.
LEMMA WorkerDiesKeeps ==
  ASSUME PoolInv, NEW p \in Processes, WorkerDies(p)
  PROVE  PoolInv'
<1>1. /\ process' = Killed(p) /\ UNCHANGED <<slot, task, nextSlot, stopping>> /\ (closed => closed')
      /\ slot' \in [1..Slots -> SlotRecord] /\ PoolTypeOK
  BY DEF WorkerDies, PoolInv, PoolTypeOK
<1>2. LockInv' /\ OwnInv' /\ PipeInv' /\ OwnAnswer'
  BY <1>1, DeathKeeps
<1>3. PoolTypeOK' /\ CloseInv'
  BY <1>1, KilledTyped DEF PoolInv, PoolTypeOK, CloseInv, Talks
<1> QED
  BY <1>2, <1>3 DEF PoolInv

\* Owners stay when processes, callers and what rests in the slots do.
LEMMA SameOwners ==
  ASSUME PoolInv, UNCHANGED <<process, task>>,
         \A r \in 1..Slots : slot'[r].process = slot[r].process
  PROVE  OwnInv'
<1>1. \A t \in Tasks : task[t].slot \in 1..Slots
  BY DEF PoolInv, PoolTypeOK, TaskRecord
<1>2. \A t \in Tasks : Talks(t)' <=> Talks(t)
  BY DEF Talks
<1> QED
  BY <1>1, <1>2 DEF PoolInv, OwnInv

\* A slot's cool-down ends.
LEMMA CooledDownKeeps ==
  ASSUME PoolInv, NEW s \in 1..Slots, CooledDown(s)
  PROVE  PoolInv'
<1>1. /\ slot' \in [1..Slots -> SlotRecord]
      /\ \A r \in 1..Slots : slot'[r].process = slot[r].process /\ slot'[r].holder = slot[r].holder
  BY DEF CooledDown, PoolInv, PoolTypeOK, SlotRecord
<1>2. UNCHANGED <<process, task, nextSlot, stopping>> /\ (closed => closed')
  BY DEF CooledDown
<1>3. PoolTypeOK' /\ PipeInv' /\ OwnAnswer'
  BY <1>1, <1>2 DEF PoolInv, PoolTypeOK, PipeInv, OwnAnswer, Silent, Serves, CallOf
<1>4. LockInv' /\ CloseInv'
  BY <1>1, <1>2 DEF PoolInv, PoolTypeOK, TaskRecord, LockInv, CloseInv, Holds, Talks
<1>5. OwnInv'
  BY <1>1, <1>2, SameOwners
<1> QED
  BY <1>3, <1>4, <1>5 DEF PoolInv

\* Shutdown closes the pool to new calls.
LEMMA ShutdownKeeps ==
  ASSUME PoolInv, ShutdownPool
  PROVE  PoolInv'
<1>1. UNCHANGED <<slot, process, task, nextSlot>> /\ closed' /\ stopping' = 1
  BY DEF ShutdownPool
<1>2. PoolTypeOK' /\ LockInv' /\ PipeInv' /\ OwnAnswer'
  BY <1>1, PoolAssumption
     DEF PoolInv, PoolTypeOK, LockInv, PipeInv, OwnAnswer, Holds, Silent, Serves, CallOf
<1>3. OwnInv' /\ CloseInv'
  BY <1>1 DEF PoolInv, OwnInv, CloseInv, Talks
<1> QED
  BY <1>2, <1>3 DEF PoolInv

\* Shutdown stops a slot's process once the slot is free.
LEMMA StopSlotKeeps ==
  ASSUME PoolInv, StopSlot
  PROVE  PoolInv'
<1>0. PICK s \in 1..Slots : s = stopping
  BY DEF StopSlot
<1>1. /\ slot' \in [1..Slots -> SlotRecord] /\ slot'[s].process = NoProcess
      /\ \A r \in 1..Slots : r # s => slot'[r] = slot[r]
      /\ \A r \in 1..Slots : slot'[r].holder = slot[r].holder
  BY <1>0 DEF StopSlot, PoolInv, PoolTypeOK, SlotRecord
<1>2. /\ UNCHANGED <<task, nextSlot>> /\ (closed => closed') /\ stopping' = s + 1
      /\ slot[s].holder = Unheld /\ slot[s].process \in Processes \cup {NoProcess} /\ PoolTypeOK
  BY <1>0 DEF StopSlot, PoolInv, PoolTypeOK, SlotRecord
<1>3. CloseInv'
  <2>1. \A u \in Tasks : Talks(u) => task[u].slot # s
    BY <1>2, PoolAssumption DEF PoolInv, LockInv, Talks, Holds
  <2>2. s # 0 /\ stopping # 0
    BY <1>0
  <2>3. closed'
    BY <1>2, <2>2 DEF PoolInv, CloseInv
  <2> QED
    BY <1>0, <1>1, <1>2, <2>1, <2>3, PoolAssumption DEF PoolInv, CloseInv, Talks
<1>4. CASE slot[s].process = NoProcess
  <2>1. process' = process /\ \A r \in 1..Slots : slot'[r].process = slot[r].process
    BY <1>0, <1>1, <1>4 DEF StopSlot
  <2>2. PoolTypeOK' /\ PipeInv' /\ OwnAnswer'
    BY <1>1, <1>2, <2>1, PoolAssumption DEF PoolInv, PoolTypeOK, PipeInv, OwnAnswer, Silent, Serves, CallOf
  <2>3. LockInv'
    BY <1>1, <1>2 DEF PoolInv, PoolTypeOK, TaskRecord, LockInv, Holds
  <2>4. OwnInv'
    BY <1>2, <2>1, SameOwners
  <2> QED
    BY <1>3, <2>2, <2>3, <2>4 DEF PoolInv
<1>5. CASE slot[s].process \in Processes
  <2>1. process' = Killed(slot[s].process)
    BY <1>0, <1>5, NoCallTyped DEF StopSlot
  <2>2. LockInv' /\ OwnInv' /\ PipeInv' /\ OwnAnswer'
    BY <1>1, <1>2, <1>5, <2>1, DeathKeeps
  <2>3. PoolTypeOK'
    BY <1>1, <1>2, <1>5, <2>1, KilledTyped, PoolAssumption DEF PoolTypeOK
  <2> QED
    BY <1>3, <2>2, <2>3 DEF PoolInv
<1> QED
  BY <1>2, <1>4, <1>5

\* Every step keeps the invariant.
LEMMA StepKeeps ==
  ASSUME PoolInv, [PoolNext]_poolVars
  PROVE  PoolInv'
<1>1. CASE UNCHANGED poolVars
  <2>1. UNCHANGED <<slot, process, task, nextSlot, stopping>> /\ (closed => closed')
    BY <1>1 DEF poolVars
  <2> QED
    BY <2>1 DEF PoolInv, PoolTypeOK, LockInv, OwnInv, PipeInv, CloseInv, OwnAnswer,
                Holds, Talks, Silent, Serves, CallOf
<1> QED
  BY <1>1, DispatchKeeps, TrySlotKeeps, EnterSlotKeeps, WriteRequestKeeps, ReadResponseKeeps,
     TerminateKeeps, ReturnAnswerKeeps, WorkerAnswersKeeps, WorkerDiesKeeps, CooledDownKeeps,
     ShutdownKeeps, StopSlotKeeps DEF PoolNext

\* The inductive invariant holds throughout.
LEMMA PoolInvariant == PoolSpec => []PoolInv
  BY InitHolds, StepKeeps, PTL DEF PoolSpec

\* Each caller of evaluate gets the answer to its own request, every live
\* worker process has exactly one owner, and none outlives shutdown: for any
\* number of slots, callers, calls and crashes.
THEOREM PoolIsSound == PoolSpec => []PoolSound
<1>1. ASSUME PoolInv PROVE PoolSound
  <2>1. ProcessOwned
    <3> SUFFICES ASSUME NEW p \in Processes, process[p].state = "live"
                 PROVE  Cardinality({s \in 1..Slots : slot[s].process = p})
                          + Cardinality({t \in Tasks : task[t].process = p /\ Talks(t)}) = 1
      BY DEF ProcessOwned, Talks
    <3> DEFINE resting == {s \in 1..Slots : slot[s].process = p}
               talking == {t \in Tasks : task[t].process = p /\ Talks(t)}
    <3> SUFFICES Cardinality(resting) + Cardinality(talking) = 1
      OBVIOUS
    <3>1. CASE \E s \in 1..Slots : slot[s].process = p
      <4>1. PICK r \in 1..Slots : slot[r].process = p
        BY <3>1
      <4>2. {s \in 1..Slots : slot[s].process = p} = {r}
        BY <1>1, <4>1 DEF PoolInv, OwnInv
      <4>3. {t \in Tasks : task[t].process = p /\ Talks(t)} = {}
        BY <1>1, <4>1 DEF PoolInv, OwnInv
      <4>4. Cardinality({r}) = 1 /\ Cardinality({}) = 0
        BY FS_Singleton, FS_EmptySet
      <4>5. Cardinality(resting) = 1 /\ Cardinality(talking) = 0
        BY <4>2, <4>3, <4>4, Zenon
      <4> HIDE DEF resting, talking
      <4> QED
        BY <4>5
    <3>2. CASE \E t \in Tasks : Talks(t) /\ task[t].process = p
      <4>1. PICK u \in Tasks : Talks(u) /\ task[u].process = p
        BY <3>2
      <4>2. {t \in Tasks : task[t].process = p /\ Talks(t)} = {u}
        BY <1>1, <4>1 DEF PoolInv, OwnInv
      <4>3. {s \in 1..Slots : slot[s].process = p} = {}
        BY <1>1, <4>1 DEF PoolInv, OwnInv
      <4>4. Cardinality({u}) = 1 /\ Cardinality({}) = 0
        BY FS_Singleton, FS_EmptySet
      <4>5. Cardinality(resting) = 0 /\ Cardinality(talking) = 1
        BY <4>2, <4>3, <4>4, Zenon
      <4> HIDE DEF resting, talking
      <4> QED
        BY <4>5
    <3> QED
      BY <1>1, <3>1, <3>2 DEF PoolInv, OwnInv
  <2>2. ShutdownFinal
    <3> SUFFICES ASSUME stopping > Slots, NEW p \in Processes, process[p].state = "live"
                 PROVE  FALSE
      BY DEF ShutdownFinal
    <3>1. \A s \in 1..Slots : s < stopping
      BY <1>1, PoolAssumption DEF PoolInv, PoolTypeOK
    <3>2. \A s \in 1..Slots : slot[s].process = NoProcess /\ \A t \in Tasks : Talks(t) => task[t].slot # s
      BY <1>1, <3>1 DEF PoolInv, CloseInv
    <3>3. \A t \in Tasks : task[t].slot \in 1..Slots
      BY <1>1 DEF PoolInv, PoolTypeOK, TaskRecord
    <3> QED
      BY <1>1, <3>2, <3>3, NoCallTyped DEF PoolInv, OwnInv
  <2> QED
    BY <1>1, <2>1, <2>2 DEF PoolInv, PoolSound, WorkersAccounted
<1> QED
  BY <1>1, PoolInvariant, PTL

-----------------------------------------------------------------------------
(* A request on its way *)

\* Stages of the handler, each set from the point where something was done to
\* the last stage before the response is returned.
Wrote      == {"awaiting", "upgrading", "registered", "shaping", "attaching"}
Sealed     == {"dispatching", "sending", "connecting"} \cup Wrote
Rewritten  == {"attempting"} \cup Sealed
Backed     == {"rewriting"} \cup Rewritten
Accepted   == {"leasing"} \cup Backed
Chosen     == {"ready", "transforming", "reinspecting"} \cup Accepted
Authorised == {"deciding", "installing", "permission", "policy"} \cup Chosen
BasicDone  == {"guarding", "authorizing", "verified", "binding"} \cup Authorised
JwtDone    == {"basic"} \cup BasicDone
Routed     == {"cache", "jwt"} \cup JwtDone
Gated      == {"route"} \cup Routed
Filtered   == {"fencing", "matching", "workload"} \cup Gated
Admitted   == {"normalising", "edge", "bans", "policies", "rates", "inspecting"} \cup Filtered
Early      == {"arrived", "screening", "admission"}
Over       == {"answered", "refused", "streaming", "done"}

RqFields == {"pc", "snap", "evidence", "lease", "fences", "held", "passed", "fields", "established",
             "consumed", "allowed", "form", "inspected", "member", "pinned", "attempts", "sends",
             "answer", "observation", "secured", "guarded"}

RqShape(r) ==
  /\ r = [f \in RqFields |-> r[f]] /\ r.pc \in Early \cup Admitted \cup Over
  /\ r.fields = [f \in Fields |-> r.fields[f]]
  /\ r.established \subseteq {"identity", "fwdIdentity"}

\* Every authenticator of the route that lies behind let the request pass.
PassedInv(r) ==
  /\ r.pc \in Gated /\ "workload" \in route => "workload" \in r.passed
  /\ r.pc \in JwtDone /\ "jwt" \in route => "jwt" \in r.passed
  /\ r.pc \in BasicDone /\ "basic" \in route => "basic" \in r.passed
  /\ r.pc \in Authorised /\ "auth" \in route => "auth" \in r.passed
  /\ r.pc \in Sealed /\ "native" \in route => "native" \in r.passed

\* Permits are held from where they were taken to the end of the handler.
HeldInv(r) ==
  /\ r.pc \in Admitted => "request" \in r.held
  /\ r.pc \in Routed => "route" \in r.held
  /\ r.pc \in Backed => "backend" \in r.held

\* The blocks accepted the request as it is, unless it is about to be inspected again.
FormInv(r) ==
  /\ r.pc \in Filtered /\ route \cap {"lua", "transform"} = {} => r.inspected = r.form
  /\ r.pc \in Accepted /\ "blocks" \in route => r.inspected = r.form
  /\ r.pc = "policy" => "lua" \in route

PinInv(r) ==
  /\ r.pc \notin Chosen \cup Over => r.pinned = NoMember
  /\ r.pc \in Chosen /\ r.pinned # NoMember => r.member = r.pinned

\* The fields that are written to an origin.
FieldsFinal(r, fields) ==
  /\ fields["identity"] \in {"absent", "established"}
  /\ fields["fwdIdentity"] \in {"absent", "established"}
  /\ \A f \in r.established : fields[f] = "established"
  /\ fields["forwarded"] = "gateway"
  /\ r.consumed => fields["authorization"] # "client"

FieldsInv(r) == r.pc \in Rewritten => FieldsFinal(r, r.fields)

SentSound(r, sent) ==
  /\ Required \subseteq sent.passed /\ ("blocks" \in route => sent.inspected)
  /\ FieldsFinal(r, sent.fields)
  /\ r.pinned # NoMember => sent.member = r.pinned
  /\ CarriesGate => sent.current

\* A request is written at most once, and as the rules ask.
SendsInv(r) ==
  /\ r.pc \notin Wrote \cup Over => r.sends = {}
  /\ r.sends = {} \/ \E sent : r.sends = {sent} /\ SentSound(r, sent)

\* The response is finalised and observed at its end only, and an origin's
\* response has its permits and its guard from the start.
AnswerInv(r) ==
  /\ r.secured = IF r.pc \in {"streaming", "done"} THEN 1 ELSE 0
  /\ r.pc \in Early \cup {"refused"} => r.observation = "none"
  /\ r.pc \in {"streaming", "done"} => r.observation # "captured"
  /\ r.pc \notin {"answered", "streaming", "done"} => r.answer \notin {"origin", "streamed"}
  /\ r.pc \in {"answered", "streaming"} /\ r.answer \in {"origin", "streamed"} =>
       {"request", "route", "backend"} \subseteq r.held
  /\ r.answer \in {"origin", "streamed"} /\ r.lease # <<>> => r.guarded
  /\ r.pc = "done" => r.held = {}

RequestInv(r) ==
  /\ RqShape(r) /\ PassedInv(r) /\ HeldInv(r) /\ FormInv(r) /\ PinInv(r)
  /\ FieldsInv(r) /\ SendsInv(r) /\ AnswerInv(r)

\* After a shutdown began no tunnel task is spawned any more.
TunnelInv ==
  /\ stop # "no" => tunnelsClosed
  /\ stop = "drained" => tunnel # "spawned"

PipelineInv == RequestInv(rq) /\ TunnelInv

USE DEF Wrote, Sealed, Rewritten, Backed, Accepted, Chosen, Authorised, BasicDone, JwtDone, Routed,
        Gated, Filtered, Admitted, Early, Over

\* The request after a step that changes the fields of `changed`.
Changes(changed) ==
  /\ rq' = [f \in RqFields |-> rq'[f]]
  /\ \A f \in RqFields \ changed : rq'[f] = rq[f]

\* An early answer drops what the handler held, but for the request's permit.
LEMMA AnsweredKeeps ==
  ASSUME RequestInv(rq), rq.pc \in Admitted, NEW reply, reply \notin {"origin", "streamed"},
         rq' = Answered(rq, reply)
  PROVE  RequestInv(rq')
<1>1. /\ Changes({"pc", "answer", "held"})
      /\ rq'.pc = "answered" /\ rq'.answer = reply /\ rq'.held = rq.held \cap {"request"}
  BY DEF RequestInv, RqShape, Answered, RqFields, Changes
<1>2. RqShape(rq') /\ PassedInv(rq') /\ HeldInv(rq') /\ FormInv(rq') /\ PinInv(rq') /\ FieldsInv(rq')
  BY <1>1 DEF RequestInv, Changes, RqFields, RqShape, PassedInv, HeldInv, FormInv, PinInv, FieldsInv
<1>3. SendsInv(rq')
  BY <1>1 DEF RequestInv, Changes, RqFields, SendsInv, SentSound, FieldsFinal
<1>4. AnswerInv(rq')
  BY <1>1 DEF RequestInv, Changes, RqFields, AnswerInv
<1> QED BY <1>2, <1>3, <1>4 DEF RequestInv

\* What a refusal of handle_unfinalized leaves: nothing is held or observed.
LEMMA RefusedKeeps ==
  ASSUME RequestInv(rq), rq.pc \in Early, NEW reply, reply \notin {"origin", "streamed"},
         rq' = Refused(reply)
  PROVE  RequestInv(rq')
<1>1. /\ Changes({"pc", "answer", "held"})
      /\ rq'.pc = "refused" /\ rq'.answer = reply /\ rq'.held = {}
  BY DEF RequestInv, RqShape, Refused, RqFields, Changes
<1>2. RqShape(rq') /\ PassedInv(rq') /\ HeldInv(rq') /\ FormInv(rq') /\ PinInv(rq') /\ FieldsInv(rq')
  BY <1>1 DEF RequestInv, Changes, RqFields, RqShape, PassedInv, HeldInv, FormInv, PinInv, FieldsInv
<1>3. SendsInv(rq')
  BY <1>1 DEF RequestInv, Changes, RqFields, SendsInv
<1>4. AnswerInv(rq')
  BY <1>1 DEF RequestInv, Changes, RqFields, AnswerInv
<1> QED BY <1>2, <1>3, <1>4 DEF RequestInv

\* Before the request is written, nothing was sent and nothing is an origin's answer.
LEMMA UnsentKeeps ==
  ASSUME RequestInv(rq), rq.pc \in Admitted \ Wrote, rq'.pc \in Admitted \ Wrote,
         rq'.sends = rq.sends, rq'.secured = rq.secured, rq'.answer = rq.answer
  PROVE  SendsInv(rq') /\ AnswerInv(rq')
<1>1. rq'.pc \notin Over \cup Early \cup Wrote /\ rq.pc \notin Over \cup Early \cup Wrote
  OBVIOUS
<1> QED BY <1>1 DEF RequestInv, SendsInv, AnswerInv

\* A step that only moves on between two stages with the same obligations.
SameDuties(p, q) ==
  /\ p \in Admitted /\ q \in Admitted /\ (p \in Wrote <=> q \in Wrote)
  /\ (p \in Chosen <=> q \in Chosen) /\ (q = "policy" => p = "policy")
  /\ (q \in Filtered => p \in Filtered) /\ (q \in Gated => p \in Gated) /\ (q \in Routed => p \in Routed)
  /\ (q \in JwtDone => p \in JwtDone) /\ (q \in BasicDone => p \in BasicDone)
  /\ (q \in Authorised => p \in Authorised) /\ (q \in Accepted => p \in Accepted)
  /\ (q \in Backed => p \in Backed) /\ (q \in Rewritten => p \in Rewritten) /\ (q \in Sealed => p \in Sealed)

\* Moving on to a step that has no new obligation keeps the invariant.
LEMMA MovesKeep ==
  ASSUME RequestInv(rq), NEW next, SameDuties(rq.pc, next), rq' = [rq EXCEPT !.pc = next]
  PROVE  RequestInv(rq')
<1>1. Changes({"pc"}) /\ rq'.pc = next
  BY DEF RequestInv, RqShape, RqFields, Changes
<1>2. RqShape(rq')
  BY <1>1 DEF RequestInv, Changes, RqFields, RqShape, SameDuties
<1>3. PassedInv(rq') /\ HeldInv(rq')
  BY <1>1 DEF RequestInv, Changes, RqFields, PassedInv, HeldInv, SameDuties
<1>4. FormInv(rq') /\ PinInv(rq') /\ FieldsInv(rq')
  BY <1>1 DEF RequestInv, Changes, RqFields, FormInv, PinInv, FieldsInv, FieldsFinal, SameDuties
<1>5. SendsInv(rq')
  BY <1>1 DEF RequestInv, Changes, RqFields, SendsInv, SentSound, FieldsFinal, SameDuties
<1>6. AnswerInv(rq')
  BY <1>1 DEF RequestInv, Changes, RqFields, AnswerInv, SameDuties
<1> QED BY <1>2, <1>3, <1>4, <1>5, <1>6 DEF RequestInv

\* Before the permit, nothing but the stage matters.
LEMMA EarlyKeeps ==
  ASSUME RequestInv(rq), rq.pc \in Early, rq'.pc \in Early \cup {"normalising"},
         Changes({"pc", "snap", "fields", "held"}), rq'.fields = [f \in Fields |-> rq'.fields[f]],
         rq'.pc = "normalising" => "request" \in rq'.held
  PROVE  RequestInv(rq')
<1>1. RqShape(rq')
  BY DEF RequestInv, Changes, RqFields, RqShape
<1>2. PassedInv(rq') /\ HeldInv(rq') /\ FormInv(rq') /\ PinInv(rq') /\ FieldsInv(rq')
  BY DEF RequestInv, Changes, RqFields, PassedInv, HeldInv, FormInv, PinInv, FieldsInv
<1>3. SendsInv(rq')
  BY DEF RequestInv, Changes, RqFields, SendsInv
<1>4. AnswerInv(rq')
  BY DEF RequestInv, Changes, RqFields, AnswerInv
<1> QED BY <1>1, <1>2, <1>3, <1>4 DEF RequestInv

\* From the listener to the request's permit.
LEMMA ScreenKeeps ==
  ASSUME RequestInv(rq), Handle \/ Screen \/ HealthProbe \/ AdmitRequest
  PROVE  RequestInv(rq')
<1>1. CASE Handle
  <2>1. Changes({"pc", "snap"}) /\ rq'.pc = "screening" /\ rq.pc = "arrived" /\ rq'.fields = rq.fields
    BY <1>1 DEF Handle, RequestAt, AdvanceTo, RequestInv, RqShape, RqFields, Changes
  <2>2. Changes({"pc", "snap", "fields", "held"}) /\ rq'.fields = [f \in Fields |-> rq'.fields[f]]
    BY <2>1 DEF RequestInv, RqShape, Changes
  <2> QED BY <2>1, <2>2, EarlyKeeps
<1>2. CASE Screen
  <2>1. rq.pc = "screening"
    BY <1>2 DEF Screen, RequestAt
  <2>2. CASE rq' = Refused("503") \/ rq' = Refused("banned")
    BY <2>1, <2>2, RefusedKeeps
  <2>3. CASE rq' = [rq EXCEPT !.pc = "admission", !.fields = StripReserved(@)]
    <3>1. Changes({"pc", "fields"}) /\ rq'.pc = "admission" /\ rq'.fields = StripReserved(rq.fields)
      BY <2>3 DEF RequestInv, RqShape, RqFields, Changes
    <3>2. rq'.fields = [f \in Fields |-> rq'.fields[f]] /\ Changes({"pc", "snap", "fields", "held"})
      BY <3>1 DEF RequestInv, RqShape, StripReserved, Changes
    <3> QED BY <2>1, <3>1, <3>2, EarlyKeeps
  <2> QED BY <1>2, <2>2, <2>3 DEF Screen, AdvanceTo
<1>3. CASE HealthProbe
  BY <1>3, RefusedKeeps DEF HealthProbe, RequestAt, AdvanceTo
<1>4. CASE AdmitRequest
  <2>1. rq.pc = "admission"
    BY <1>4 DEF AdmitRequest, RequestAt
  <2>2. CASE rq' = Refused("503")
    BY <2>1, <2>2, RefusedKeeps
  <2>3. CASE rq' = [rq EXCEPT !.pc = "normalising", !.held = {"request"}]
    <3>1. /\ Changes({"pc", "held"}) /\ rq'.pc = "normalising" /\ rq'.held = {"request"}
          /\ rq'.fields = rq.fields
      BY <2>3 DEF RequestInv, RqShape, RqFields, Changes
    <3>2. rq'.fields = [f \in Fields |-> rq'.fields[f]] /\ Changes({"pc", "snap", "fields", "held"})
      BY <3>1 DEF RequestInv, RqShape, Changes
    <3> QED BY <2>1, <3>1, <3>2, EarlyKeeps
  <2> QED BY <1>4, <2>2, <2>3 DEF AdmitRequest, AdvanceTo
<1> QED BY <1>1, <1>2, <1>3, <1>4

\* Normalisation, client policies and limits, up to the request blocks.
LEMMA FiltersKeep ==
  ASSUME RequestInv(rq),
         Normalise \/ ResolveEdge \/ ObserveFailures \/ PathPolicies \/ CheckRates \/ FenceAdmission
  PROVE  RequestInv(rq')
<1>1. CASE Normalise
  <2>1. rq.pc = "normalising"
    BY <1>1 DEF Normalise, RequestAt
  <2>2. CASE rq' = Answered(rq, "400")
    BY <2>1, <2>2, AnsweredKeeps
  <2>3. CASE rq' = [rq EXCEPT !.pc = "edge",
                      !.fields = IF "workload" \in traits THEN StripForwarding(@) ELSE @]
    <3>1. /\ Changes({"pc", "fields"}) /\ rq'.pc = "edge"
          /\ rq'.fields = IF "workload" \in traits THEN StripForwarding(rq.fields) ELSE rq.fields
      BY <2>3 DEF RequestInv, RqShape, RqFields, Changes
    <3>2. rq'.fields = [f \in Fields |-> rq'.fields[f]]
      BY <3>1 DEF RequestInv, RqShape, StripForwarding
    <3>3. RqShape(rq') /\ PassedInv(rq') /\ HeldInv(rq') /\ FormInv(rq') /\ PinInv(rq') /\ FieldsInv(rq')
      BY <2>1, <3>1, <3>2 DEF RequestInv, Changes, RqFields, RqShape, PassedInv, HeldInv, FormInv, PinInv, FieldsInv
    <3>4. SendsInv(rq') /\ AnswerInv(rq')
      BY <2>1, <3>1, UnsentKeeps DEF Changes, RqFields
    <3> QED BY <3>3, <3>4 DEF RequestInv
  <2> QED BY <1>1, <2>2, <2>3 DEF Normalise, AdvanceTo
<1>2. CASE ResolveEdge
  <2>1. CASE rq' = [rq EXCEPT !.pc = "bans"]
    BY <1>2, <2>1, MovesKeep DEF ResolveEdge, RequestAt, SameDuties
  <2> QED BY <1>2, <2>1, AnsweredKeeps DEF ResolveEdge, RequestAt, AdvanceTo
<1>3. CASE ObserveFailures
  <2>1. rq.pc = "bans"
    BY <1>3 DEF ObserveFailures, RequestAt
  <2>2. CASE rq' = Answered(rq, "banned")
    BY <2>1, <2>2, AnsweredKeeps
  <2>3. CASE rq' = [rq EXCEPT !.pc = "policies",
                      !.observation = IF "bans" \in route THEN "captured" ELSE "none"]
    <3>1. Changes({"pc", "observation"}) /\ rq'.pc = "policies"
      BY <2>3 DEF RequestInv, RqShape, RqFields, Changes
    <3>3. RqShape(rq') /\ PassedInv(rq') /\ HeldInv(rq') /\ FormInv(rq') /\ PinInv(rq') /\ FieldsInv(rq')
      BY <2>1, <3>1 DEF RequestInv, Changes, RqFields, RqShape, PassedInv, HeldInv, FormInv, PinInv, FieldsInv
    <3>4. SendsInv(rq') /\ AnswerInv(rq')
      BY <2>1, <3>1, UnsentKeeps DEF Changes, RqFields
    <3> QED BY <3>3, <3>4 DEF RequestInv
  <2> QED BY <1>3, <2>2, <2>3 DEF ObserveFailures, AdvanceTo
<1>4. CASE PathPolicies
  <2>1. CASE rq' = [rq EXCEPT !.pc = "rates"]
    BY <1>4, <2>1, MovesKeep DEF PathPolicies, RequestAt, SameDuties
  <2> QED BY <1>4, <2>1, AnsweredKeeps DEF PathPolicies, RequestAt, AdvanceTo
<1>5. CASE CheckRates
  <2>1. CASE rq' = [rq EXCEPT !.pc = "inspecting"]
    BY <1>5, <2>1, MovesKeep DEF CheckRates, RequestAt, SameDuties
  <2> QED BY <1>5, <2>1, AnsweredKeeps DEF CheckRates, RequestAt, AdvanceTo
<1>6. CASE FenceAdmission
  <2>1. CASE rq' = [rq EXCEPT !.pc = "matching"]
    BY <1>6, <2>1, MovesKeep DEF FenceAdmission, RequestAt, SameDuties
  <2> QED BY <1>6, <2>1, AnsweredKeeps DEF FenceAdmission, RequestAt, AdvanceTo
<1> QED BY <1>1, <1>2, <1>3, <1>4, <1>5, <1>6

\* The request blocks accept the request in its present form.
LEMMA InspectKeeps ==
  ASSUME RequestInv(rq), InspectRequest
  PROVE  RequestInv(rq')
<1>1. rq.pc = "inspecting"
  BY DEF InspectRequest, RequestAt
<1>2. CASE rq' = Answered(rq, "blocked")
  BY <1>1, <1>2, AnsweredKeeps
<1>3. CASE rq' # Answered(rq, "blocked")
  <2>1. PICK watched : rq' = [rq EXCEPT !.pc = "fencing", !.inspected = rq.form, !.fences = watched]
    BY <1>3 DEF InspectRequest, AdvanceTo
  <2>2. Changes({"pc", "inspected", "fences"}) /\ rq'.pc = "fencing" /\ rq'.inspected = rq.form
    BY <2>1 DEF RequestInv, RqShape, RqFields, Changes
  <2>3. RqShape(rq') /\ PassedInv(rq') /\ HeldInv(rq') /\ FormInv(rq') /\ PinInv(rq') /\ FieldsInv(rq')
    BY <1>1, <2>2 DEF RequestInv, Changes, RqFields, RqShape, PassedInv, HeldInv, FormInv, PinInv, FieldsInv
  <2>4. SendsInv(rq') /\ AnswerInv(rq')
    BY <1>1, <2>2, UnsentKeeps DEF Changes, RqFields
  <2> QED BY <2>3, <2>4 DEF RequestInv
<1> QED BY <1>2, <1>3

\* The route is matched, its workload identity checked and its permit taken.
LEMMA RouteKeeps ==
  ASSUME RequestInv(rq), MatchRoute \/ WorkloadGate \/ AdmitRoute
  PROVE  RequestInv(rq')
<1>1. CASE MatchRoute
  <2>1. rq.pc = "matching"
    BY <1>1 DEF MatchRoute, RequestAt
  <2>2. CASE \E reply \in {"404", "denied", "413", "503"} : rq' = Answered(rq, reply)
    BY <2>1, <2>2, AnsweredKeeps
  <2>3. CASE rq' = [rq EXCEPT !.pc = "workload",
                      !.held = IF "json" \in route THEN @ \cup {"inspection"} ELSE @]
    <3>1. Changes({"pc", "held"}) /\ rq'.pc = "workload" /\ rq.held \subseteq rq'.held
      BY <2>3 DEF RequestInv, RqShape, RqFields, Changes
    <3>8. RqShape(rq') /\ PassedInv(rq') /\ HeldInv(rq') /\ FormInv(rq') /\ PinInv(rq') /\ FieldsInv(rq')
      BY <2>1, <3>1 DEF RequestInv, Changes, RqFields, RqShape, PassedInv, HeldInv, FormInv, PinInv, FieldsInv
    <3>9. SendsInv(rq') /\ AnswerInv(rq')
      BY <2>1, <3>1, UnsentKeeps DEF Changes, RqFields
    <3> QED BY <3>8, <3>9 DEF RequestInv
  <2> QED BY <1>1, <2>2, <2>3 DEF MatchRoute, AdvanceTo
<1>2. CASE WorkloadGate
  <2>1. rq.pc = "workload"
    BY <1>2 DEF WorkloadGate, RequestAt
  <2>2. CASE rq' = Answered(rq, "403")
    BY <2>1, <2>2, AnsweredKeeps
  <2>3. CASE rq' # Answered(rq, "403")
    <3>1. PICK leased : rq' = [rq EXCEPT !.pc = "route", !.lease = leased,
                                 !.passed = IF "workload" \in route THEN @ \cup {"workload"} ELSE @]
      BY <1>2, <2>3 DEF WorkloadGate, AdvanceTo
    <3>2. /\ Changes({"pc", "lease", "passed"}) /\ rq'.pc = "route"
          /\ "workload" \in route => "workload" \in rq'.passed
      BY <3>1 DEF RequestInv, RqShape, RqFields, Changes
    <3>8. RqShape(rq') /\ PassedInv(rq') /\ HeldInv(rq') /\ FormInv(rq') /\ PinInv(rq') /\ FieldsInv(rq')
      BY <2>1, <3>2 DEF RequestInv, Changes, RqFields, RqShape, PassedInv, HeldInv, FormInv, PinInv, FieldsInv
    <3>9. SendsInv(rq') /\ AnswerInv(rq')
      BY <2>1, <3>2, UnsentKeeps DEF Changes, RqFields
    <3> QED BY <3>8, <3>9 DEF RequestInv
  <2> QED BY <2>2, <2>3
<1>3. CASE AdmitRoute
  <2>1. rq.pc = "route"
    BY <1>3 DEF AdmitRoute, RequestAt
  <2>2. CASE \E reply \in {"redirect", "503", "403"} : rq' = Answered(rq, reply)
    BY <2>1, <2>2, AnsweredKeeps
  <2>3. CASE rq' = [rq EXCEPT !.pc = "cache", !.held = @ \cup {"route"}]
    <3>1. Changes({"pc", "held"}) /\ rq'.pc = "cache" /\ rq'.held = rq.held \cup {"route"}
      BY <2>3 DEF RequestInv, RqShape, RqFields, Changes
    <3>8. RqShape(rq') /\ PassedInv(rq') /\ HeldInv(rq') /\ FormInv(rq') /\ PinInv(rq') /\ FieldsInv(rq')
      BY <2>1, <3>1 DEF RequestInv, Changes, RqFields, RqShape, PassedInv, HeldInv, FormInv, PinInv, FieldsInv
    <3>9. SendsInv(rq') /\ AnswerInv(rq')
      BY <2>1, <3>1, UnsentKeeps DEF Changes, RqFields
    <3> QED BY <3>8, <3>9 DEF RequestInv
  <2> QED BY <1>3, <2>2, <2>3 DEF AdmitRoute, AdvanceTo
<1> QED BY <1>1, <1>2, <1>3

\* A hit is no origin's answer; a miss goes on to authentication.
LEMMA CacheLookupKeeps ==
  ASSUME RequestInv(rq), CacheLookup
  PROVE  RequestInv(rq')
<1>1. rq.pc = "cache"
  BY DEF CacheLookup, RequestAt
<1>2. CASE rq' = Answered(rq, "504")
  BY <1>1, <1>2, AnsweredKeeps
<1>3. CASE rq' = [rq EXCEPT !.pc = "answered", !.answer = "hit", !.held = @ \cap {"request", "route"}]
  <2>1. Changes({"pc", "answer", "held"}) /\ rq'.pc = "answered" /\ rq'.answer = "hit"
    BY <1>3 DEF RequestInv, RqShape, RqFields, Changes
  <2>2. RqShape(rq') /\ PassedInv(rq') /\ HeldInv(rq') /\ FormInv(rq') /\ PinInv(rq') /\ FieldsInv(rq')
    BY <1>1, <2>1 DEF RequestInv, Changes, RqFields, RqShape, PassedInv, HeldInv, FormInv, PinInv, FieldsInv
  <2>3. SendsInv(rq')
    BY <1>1, <2>1 DEF RequestInv, Changes, RqFields, SendsInv
  <2>4. AnswerInv(rq')
    BY <1>1, <2>1 DEF RequestInv, Changes, RqFields, AnswerInv
  <2> QED BY <2>2, <2>3, <2>4 DEF RequestInv
<1>4. CASE rq' = [rq EXCEPT !.pc = "jwt", !.allowed = "pumgye" \notin route,
                    !.established = IF "workload" \in route THEN {"identity"} ELSE @,
                    !.fields = IF "workload" \in route THEN [@ EXCEPT !["identity"] = "established"] ELSE @]
  <2>1. /\ Changes({"pc", "allowed", "established", "fields"}) /\ rq'.pc = "jwt"
        /\ rq'.established = IF "workload" \in route THEN {"identity"} ELSE rq.established
        /\ rq'.fields = IF "workload" \in route
                        THEN [rq.fields EXCEPT !["identity"] = "established"] ELSE rq.fields
    BY <1>4 DEF RequestInv, RqShape, RqFields, Changes
  <2>2. rq'.fields = [f \in Fields |-> rq'.fields[f]] /\ rq'.established \subseteq {"identity", "fwdIdentity"}
    BY <2>1 DEF RequestInv, RqShape
  <2>8. RqShape(rq') /\ PassedInv(rq') /\ HeldInv(rq') /\ FormInv(rq') /\ PinInv(rq') /\ FieldsInv(rq')
    BY <1>1, <2>1, <2>2 DEF RequestInv, Changes, RqFields, RqShape, PassedInv, HeldInv, FormInv, PinInv, FieldsInv
  <2>9. SendsInv(rq') /\ AnswerInv(rq')
    BY <1>1, <2>1, UnsentKeeps DEF Changes, RqFields
  <2> QED BY <2>8, <2>9 DEF RequestInv
<1> QED BY <1>2, <1>3, <1>4 DEF CacheLookup, AdvanceTo

\* An authenticator of the route lets the request pass and names its identity.
LEMMA GatesKeep ==
  ASSUME RequestInv(rq), JwtGate \/ BasicGate
  PROVE  RequestInv(rq')
<1>1. CASE JwtGate
  <2>1. rq.pc = "jwt"
    BY <1>1 DEF JwtGate, RequestAt
  <2>2. CASE \E reply \in {"401", "403", "503"} : rq' = Answered(rq, reply)
    BY <2>1, <2>2, AnsweredKeeps
  <2>3. CASE "jwt" \notin route /\ rq' = [rq EXCEPT !.pc = "basic"]
    <3>1. Changes({"pc"}) /\ rq'.pc = "basic"
      BY <2>3 DEF RequestInv, RqShape, RqFields, Changes
    <3>8. RqShape(rq') /\ PassedInv(rq') /\ HeldInv(rq') /\ FormInv(rq') /\ PinInv(rq') /\ FieldsInv(rq')
      BY <2>1, <2>3, <3>1 DEF RequestInv, Changes, RqFields, RqShape, PassedInv, HeldInv, FormInv, PinInv, FieldsInv
    <3>9. SendsInv(rq') /\ AnswerInv(rq')
      BY <2>1, <2>3, <3>1, UnsentKeeps DEF Changes, RqFields
    <3> QED BY <3>8, <3>9 DEF RequestInv
  <2>4. CASE rq' = [rq EXCEPT !.pc = "basic", !.passed = @ \cup {"jwt"}, !.established = @ \cup {"identity"},
                      !.fields = [@ EXCEPT !["identity"] = "established"],
                      !.lease = Watching(@, "jwt", rq.snap["jwt"])]
    <3>1. /\ Changes({"pc", "passed", "established", "fields", "lease"}) /\ rq'.pc = "basic"
          /\ rq'.passed = rq.passed \cup {"jwt"} /\ rq'.established = rq.established \cup {"identity"}
          /\ rq'.fields = [rq.fields EXCEPT !["identity"] = "established"]
      BY <2>4 DEF RequestInv, RqShape, RqFields, Changes
    <3>2. rq'.fields = [f \in Fields |-> rq'.fields[f]] /\ rq'.established \subseteq {"identity", "fwdIdentity"}
      BY <3>1 DEF RequestInv, RqShape
    <3>8. RqShape(rq') /\ PassedInv(rq') /\ HeldInv(rq') /\ FormInv(rq') /\ PinInv(rq') /\ FieldsInv(rq')
      BY <2>1, <3>1, <3>2 DEF RequestInv, Changes, RqFields, RqShape, PassedInv, HeldInv, FormInv, PinInv, FieldsInv
    <3>9. SendsInv(rq') /\ AnswerInv(rq')
      BY <2>1, <3>1, UnsentKeeps DEF Changes, RqFields
    <3> QED BY <3>8, <3>9 DEF RequestInv
  <2> QED BY <1>1, <2>2, <2>3, <2>4 DEF JwtGate, AdvanceTo
<1>2. CASE BasicGate
  <2>1. rq.pc = "basic"
    BY <1>2 DEF BasicGate, RequestAt
  <2>2. CASE rq' = Answered(rq, "401")
    BY <2>1, <2>2, AnsweredKeeps
  <2>3. CASE "basic" \notin route /\ rq' = [rq EXCEPT !.pc = "guarding"]
    <3>1. Changes({"pc"}) /\ rq'.pc = "guarding"
      BY <2>3 DEF RequestInv, RqShape, RqFields, Changes
    <3>8. RqShape(rq') /\ PassedInv(rq') /\ HeldInv(rq') /\ FormInv(rq') /\ PinInv(rq') /\ FieldsInv(rq')
      BY <2>1, <2>3, <3>1 DEF RequestInv, Changes, RqFields, RqShape, PassedInv, HeldInv, FormInv, PinInv, FieldsInv
    <3>9. SendsInv(rq') /\ AnswerInv(rq')
      BY <2>1, <2>3, <3>1, UnsentKeeps DEF Changes, RqFields
    <3> QED BY <3>8, <3>9 DEF RequestInv
  <2>4. CASE rq' = [rq EXCEPT !.pc = "guarding", !.passed = @ \cup {"basic"}, !.established = @ \cup {"identity"},
                      !.fields = [@ EXCEPT !["identity"] = "established", !["authorization"] = "absent"]]
    <3>1. /\ Changes({"pc", "passed", "established", "fields"}) /\ rq'.pc = "guarding"
          /\ rq'.passed = rq.passed \cup {"basic"} /\ rq'.established = rq.established \cup {"identity"}
          /\ rq'.fields = [rq.fields EXCEPT !["identity"] = "established", !["authorization"] = "absent"]
      BY <2>4 DEF RequestInv, RqShape, RqFields, Changes
    <3>2. rq'.fields = [f \in Fields |-> rq'.fields[f]] /\ rq'.established \subseteq {"identity", "fwdIdentity"}
      BY <3>1 DEF RequestInv, RqShape
    <3>8. RqShape(rq') /\ PassedInv(rq') /\ HeldInv(rq') /\ FormInv(rq') /\ PinInv(rq') /\ FieldsInv(rq')
      BY <2>1, <3>1, <3>2 DEF RequestInv, Changes, RqFields, RqShape, PassedInv, HeldInv, FormInv, PinInv, FieldsInv
    <3>9. SendsInv(rq') /\ AnswerInv(rq')
      BY <2>1, <3>1, UnsentKeeps DEF Changes, RqFields
    <3> QED BY <3>8, <3>9 DEF RequestInv
  <2> QED BY <1>2, <2>2, <2>3, <2>4 DEF BasicGate, AdvanceTo
<1> QED BY <1>1, <1>2

\* The external service is asked, and the request continues as what it named.
LEMMA AuthKeeps ==
  ASSUME RequestInv(rq), GuardBody \/ AuthVerify \/ AuthConclude \/ BindMachine
  PROVE  RequestInv(rq')
<1>1. CASE GuardBody
  <2>1. Changes({"pc", "guarded"}) /\ rq'.pc = "authorizing" /\ rq.pc = "guarding"
    BY <1>1 DEF GuardBody, RequestAt, AdvanceTo, RequestInv, RqShape, RqFields, Changes
  <2>8. RqShape(rq') /\ PassedInv(rq') /\ HeldInv(rq') /\ FormInv(rq') /\ PinInv(rq') /\ FieldsInv(rq')
    BY <2>1 DEF RequestInv, Changes, RqFields, RqShape, PassedInv, HeldInv, FormInv, PinInv, FieldsInv
  <2>9. SendsInv(rq') /\ AnswerInv(rq')
    BY <2>1, UnsentKeeps DEF Changes, RqFields
  <2> QED BY <2>8, <2>9 DEF RequestInv
<1>2. CASE AuthVerify
  <2>1. CASE rq' = [rq EXCEPT !.pc = "verified"]
    BY <1>2, <2>1, MovesKeep DEF AuthVerify, RequestAt, SameDuties
  <2> QED BY <1>2, <2>1, AnsweredKeeps DEF AuthVerify, RequestAt, AdvanceTo
<1>3. CASE AuthConclude
  <2>1. CASE rq' = [rq EXCEPT !.pc = "binding"]
    BY <1>3, <2>1, MovesKeep DEF AuthConclude, RequestAt, SameDuties
  <2>2. CASE \E reply \in {"401", "403", "503", "forwarded"} : rq' = Answered(rq, reply)
    BY <1>3, <2>2, AnsweredKeeps DEF AuthConclude, RequestAt
  <2> QED BY <1>3, <2>1, <2>2 DEF AuthConclude, AdvanceTo
<1>4. CASE BindMachine
  <2>1. rq.pc = "binding"
    BY <1>4 DEF BindMachine, RequestAt
  <2>2. CASE rq' = Answered(rq, "403")
    BY <2>1, <2>2, AnsweredKeeps
  <2>3. CASE rq' # Answered(rq, "403")
    <3>1. rq' = [rq EXCEPT !.pc = "deciding", !.passed = @ \cup {"auth"},
                   !.lease = IF "expiring" \in route
                             THEN Watching(@, "expiry", inForce["expiry"]) ELSE @,
                   !.guarded = @ \/ "expiring" \in route,
                   !.consumed = "service" \in route,
                   !.fields = IF "service" \in route
                              THEN [@ EXCEPT !["authorization"] = "absent"] ELSE @]
      BY <1>4, <2>3 DEF BindMachine, AdvanceTo
    <3>2. /\ Changes({"pc", "passed", "lease", "guarded", "consumed", "fields"}) /\ rq'.pc = "deciding"
          /\ rq'.passed = rq.passed \cup {"auth"}
          /\ rq'.fields = IF "service" \in route
                          THEN [rq.fields EXCEPT !["authorization"] = "absent"] ELSE rq.fields
      BY <3>1 DEF RequestInv, RqShape, RqFields, Changes
    <3>3. rq'.fields = [f \in Fields |-> rq'.fields[f]]
      BY <3>2 DEF RequestInv, RqShape
    <3>8. RqShape(rq') /\ PassedInv(rq') /\ HeldInv(rq') /\ FormInv(rq') /\ PinInv(rq') /\ FieldsInv(rq')
      BY <2>1, <3>2, <3>3 DEF RequestInv, Changes, RqFields, RqShape, PassedInv, HeldInv, FormInv, PinInv, FieldsInv
    <3>9. SendsInv(rq') /\ AnswerInv(rq')
      BY <2>1, <3>2, UnsentKeeps DEF Changes, RqFields
    <3> QED BY <3>8, <3>9 DEF RequestInv
  <2> QED BY <2>2, <2>3
<1> QED BY <1>1, <1>2, <1>3, <1>4

\* The resource decision, the identity and a member.
LEMMA PermissionKeeps ==
  ASSUME RequestInv(rq), ResourceDecision \/ InstallIdentity \/ NoExternalAuth \/ SelectMember
  PROVE  RequestInv(rq')
<1>1. CASE ResourceDecision
  <2>1. rq.pc = "deciding"
    BY <1>1 DEF ResourceDecision, RequestAt
  <2>2. CASE rq' = Answered(rq, "503")
    BY <2>1, <2>2, AnsweredKeeps
  <2>3. CASE rq' = [rq EXCEPT !.pc = "installing"]
    BY <2>1, <2>3, MovesKeep DEF SameDuties
  <2>4. CASE \/ rq' = [rq EXCEPT !.pc = "installing", !.allowed = FALSE]
             \/ rq' = [rq EXCEPT !.pc = "installing", !.allowed = TRUE,
                         !.lease = IF "remote" \in route
                                   THEN Watching(@, "remote", inForce["remote"]) ELSE @]
    <3>1. Changes({"pc", "allowed", "lease"}) /\ rq'.pc = "installing"
      BY <2>4 DEF RequestInv, RqShape, RqFields, Changes
    <3>8. RqShape(rq') /\ PassedInv(rq') /\ HeldInv(rq') /\ FormInv(rq') /\ PinInv(rq') /\ FieldsInv(rq')
      BY <2>1, <3>1 DEF RequestInv, Changes, RqFields, RqShape, PassedInv, HeldInv, FormInv, PinInv, FieldsInv
    <3>9. SendsInv(rq') /\ AnswerInv(rq')
      BY <2>1, <3>1, UnsentKeeps DEF Changes, RqFields
    <3> QED BY <3>8, <3>9 DEF RequestInv
  <2> QED BY <1>1, <2>2, <2>3, <2>4 DEF ResourceDecision, AdvanceTo
<1>2. CASE InstallIdentity
  <2>1. /\ Changes({"pc", "established", "fields"}) /\ rq.pc = "installing" /\ rq'.pc = "permission"
        /\ rq'.established = rq.established \cup {"identity", "fwdIdentity"}
        /\ rq'.fields = [rq.fields EXCEPT !["identity"] = "established", !["fwdIdentity"] = "established"]
    BY <1>2 DEF InstallIdentity, RequestAt, AdvanceTo, RequestInv, RqShape, RqFields, Changes
  <2>2. rq'.fields = [f \in Fields |-> rq'.fields[f]] /\ rq'.established \subseteq {"identity", "fwdIdentity"}
    BY <2>1 DEF RequestInv, RqShape
  <2>8. RqShape(rq') /\ PassedInv(rq') /\ HeldInv(rq') /\ FormInv(rq') /\ PinInv(rq') /\ FieldsInv(rq')
    BY <2>1, <2>2 DEF RequestInv, Changes, RqFields, RqShape, PassedInv, HeldInv, FormInv, PinInv, FieldsInv
  <2>9. SendsInv(rq') /\ AnswerInv(rq')
    BY <2>1, UnsentKeeps DEF Changes, RqFields
  <2> QED BY <2>8, <2>9 DEF RequestInv
<1>3. CASE NoExternalAuth
  <2>1. Changes({"pc"}) /\ rq'.pc = "permission" /\ rq.pc = "authorizing" /\ "auth" \notin route
    BY <1>3 DEF NoExternalAuth, RequestAt, AdvanceTo, RequestInv, RqShape, RqFields, Changes
  <2>8. RqShape(rq') /\ PassedInv(rq') /\ HeldInv(rq') /\ FormInv(rq') /\ PinInv(rq') /\ FieldsInv(rq')
    BY <2>1 DEF RequestInv, Changes, RqFields, RqShape, PassedInv, HeldInv, FormInv, PinInv, FieldsInv
  <2>9. SendsInv(rq') /\ AnswerInv(rq')
    BY <2>1, UnsentKeeps DEF Changes, RqFields
  <2> QED BY <2>8, <2>9 DEF RequestInv
<1>4. CASE SelectMember
  <2>1. rq.pc = "permission"
    BY <1>4 DEF SelectMember, RequestAt
  <2>2. CASE rq' = Answered(rq, "403") \/ rq' = Answered(rq, "503")
    BY <2>1, <2>2, AnsweredKeeps
  <2>3. CASE \E m \in HttpMembers :
               rq' = [rq EXCEPT !.pc = IF "lua" \in route THEN "policy" ELSE "ready", !.member = m]
    <3>1. Changes({"pc", "member"}) /\ rq'.pc = IF "lua" \in route THEN "policy" ELSE "ready"
      BY <2>3 DEF RequestInv, RqShape, RqFields, Changes
    <3>8. RqShape(rq') /\ PassedInv(rq') /\ HeldInv(rq') /\ FormInv(rq') /\ PinInv(rq') /\ FieldsInv(rq')
      BY <2>1, <3>1 DEF RequestInv, Changes, RqFields, RqShape, PassedInv, HeldInv, FormInv, PinInv, FieldsInv
    <3>9. SendsInv(rq') /\ AnswerInv(rq')
      BY <2>1, <3>1, UnsentKeeps DEF Changes, RqFields
    <3> QED BY <3>8, <3>9 DEF RequestInv
  <2> QED BY <1>4, <2>2, <2>3 DEF SelectMember, AdvanceTo
<1> QED BY <1>1, <1>2, <1>3, <1>4

\* A policy may rewrite the request and pin its member.
LEMMA PolicyKeeps ==
  ASSUME RequestInv(rq), PolicyDecision
  PROVE  RequestInv(rq')
<1>1. rq.pc = "policy" /\ "lua" \in route
  BY DEF PolicyDecision, RequestAt, RequestInv, FormInv
<1>2. CASE \E reply \in {"rejected", "503"} : rq' = Answered(rq, reply)
  BY <1>1, <1>2, AnsweredKeeps
<1>3. CASE \E pin \in HttpMembers \cup {NoMember}, changed \in SUBSET PolicyMayChange :
             rq' = [rq EXCEPT !.pc = "ready",
                      !.member = IF pin = NoMember THEN @ ELSE pin, !.pinned = pin, !.form = @ + 1,
                      !.fields = [f \in Fields |-> IF f \in changed THEN "policy" ELSE @[f]]]
  <2>1. PICK pin \in HttpMembers \cup {NoMember}, changed \in SUBSET PolicyMayChange :
             rq' = [rq EXCEPT !.pc = "ready",
                      !.member = IF pin = NoMember THEN @ ELSE pin, !.pinned = pin, !.form = @ + 1,
                      !.fields = [f \in Fields |-> IF f \in changed THEN "policy" ELSE @[f]]]
    BY <1>3
  <2>2. /\ Changes({"pc", "member", "pinned", "form", "fields"}) /\ rq'.pc = "ready"
        /\ rq'.pinned = pin /\ (pin # NoMember => rq'.member = pin)
        /\ rq'.fields = [f \in Fields |-> IF f \in changed THEN "policy" ELSE rq.fields[f]]
    BY <2>1 DEF RequestInv, RqShape, RqFields, Changes
  <2>3. rq'.fields = [f \in Fields |-> rq'.fields[f]]
    BY <2>2
  <2>8. RqShape(rq') /\ PassedInv(rq') /\ HeldInv(rq') /\ FormInv(rq') /\ PinInv(rq') /\ FieldsInv(rq')
    BY <1>1, <2>2, <2>3 DEF RequestInv, Changes, RqFields, RqShape, PassedInv, HeldInv, FormInv, PinInv, FieldsInv
  <2>9. SendsInv(rq') /\ AnswerInv(rq')
    BY <1>1, <2>2, UnsentKeeps DEF Changes, RqFields
  <2> QED BY <2>8, <2>9 DEF RequestInv
<1> QED BY <1>2, <1>3 DEF PolicyDecision, AdvanceTo

\* A transform rewrites the request, which is then inspected again.
LEMMA TransformKeeps ==
  ASSUME RequestInv(rq), Preconditions \/ TransformRequest \/ Reinspect
  PROVE  RequestInv(rq')
<1>1. CASE Preconditions
  <2> DEFINE transforms == {"transform", "responseTransform"} \cap route # {}
  <2>1. rq.pc = "ready"
    BY <1>1 DEF Preconditions, RequestAt
  <2>2. CASE \E reply \in {"400", "412", "416", "503", "504"} : rq' = Answered(rq, reply)
    BY <2>1, <2>2, AnsweredKeeps
  <2>3. CASE rq' = [rq EXCEPT !.pc = "transforming", !.held = IF transforms THEN @ \cup {"transform"} ELSE @]
    <3> HIDE DEF transforms
    <3>1. Changes({"pc", "held"}) /\ rq'.pc = "transforming" /\ rq.held \subseteq rq'.held
      BY <2>3 DEF RequestInv, RqShape, RqFields, Changes
    <3>8. RqShape(rq') /\ PassedInv(rq') /\ HeldInv(rq') /\ FormInv(rq') /\ PinInv(rq') /\ FieldsInv(rq')
      BY <2>1, <3>1 DEF RequestInv, Changes, RqFields, RqShape, PassedInv, HeldInv, FormInv, PinInv, FieldsInv
    <3>9. SendsInv(rq') /\ AnswerInv(rq')
      BY <2>1, <3>1, UnsentKeeps DEF Changes, RqFields
    <3> QED BY <3>8, <3>9 DEF RequestInv
  <2> QED BY <1>1, <2>2, <2>3 DEF Preconditions, AdvanceTo
<1>2. CASE TransformRequest
  <2>1. rq.pc = "transforming"
    BY <1>2 DEF TransformRequest, RequestAt
  <2>2. CASE rq' = Answered(rq, "422")
    BY <2>1, <2>2, AnsweredKeeps
  <2>3. CASE rq' = [rq EXCEPT !.pc = "reinspecting"]
    BY <2>1, <2>3, MovesKeep DEF SameDuties
  <2>4. CASE /\ "transform" \in route
             /\ rq' = [rq EXCEPT !.pc = "reinspecting", !.form = @ + 1, !.guarded = FALSE,
                         !.fields = Reassert([@ EXCEPT !["plain"] = "transform",
                                                       !["identity"] = "transform"], rq.established)]
    <3>1. /\ Changes({"pc", "form", "guarded", "fields"}) /\ rq'.pc = "reinspecting"
          /\ rq'.fields = Reassert([rq.fields EXCEPT !["plain"] = "transform",
                                                     !["identity"] = "transform"], rq.established)
      BY <2>4 DEF RequestInv, RqShape, RqFields, Changes
    <3>2. rq'.fields = [f \in Fields |-> rq'.fields[f]]
      BY <3>1 DEF Reassert
    <3>8. RqShape(rq') /\ PassedInv(rq') /\ HeldInv(rq') /\ FormInv(rq') /\ PinInv(rq') /\ FieldsInv(rq')
      BY <2>1, <2>4, <3>1, <3>2 DEF RequestInv, Changes, RqFields, RqShape, PassedInv, HeldInv, FormInv, PinInv, FieldsInv
    <3>9. SendsInv(rq') /\ AnswerInv(rq')
      BY <2>1, <2>4, <3>1, UnsentKeeps DEF Changes, RqFields
    <3> QED BY <3>8, <3>9 DEF RequestInv
  <2> QED BY <1>2, <2>2, <2>3, <2>4 DEF TransformRequest, AdvanceTo
<1>3. CASE Reinspect
  <2>1. rq.pc = "reinspecting"
    BY <1>3 DEF Reinspect, RequestAt
  <2>2. CASE rq' = Answered(rq, "blocked")
    BY <2>1, <2>2, AnsweredKeeps
  <2>3. CASE rq' = [rq EXCEPT !.pc = "leasing", !.inspected = rq.form]
    <3>1. Changes({"pc", "inspected"}) /\ rq'.pc = "leasing" /\ rq'.inspected = rq.form
      BY <2>3 DEF RequestInv, RqShape, RqFields, Changes
    <3>8. RqShape(rq') /\ PassedInv(rq') /\ HeldInv(rq') /\ FormInv(rq') /\ PinInv(rq') /\ FieldsInv(rq')
      BY <2>1, <3>1 DEF RequestInv, Changes, RqFields, RqShape, PassedInv, HeldInv, FormInv, PinInv, FieldsInv
    <3>9. SendsInv(rq') /\ AnswerInv(rq')
      BY <2>1, <3>1, UnsentKeeps DEF Changes, RqFields
    <3> QED BY <3>8, <3>9 DEF RequestInv
  <2>4. CASE /\ "blocks" \notin route \/ route \cap {"lua", "transform"} = {}
             /\ rq' = [rq EXCEPT !.pc = "leasing"]
    <3>1. Changes({"pc"}) /\ rq'.pc = "leasing"
      BY <2>4 DEF RequestInv, RqShape, RqFields, Changes
    <3>8. RqShape(rq') /\ PassedInv(rq') /\ HeldInv(rq') /\ FormInv(rq') /\ PinInv(rq') /\ FieldsInv(rq')
      BY <2>1, <2>4, <3>1 DEF RequestInv, Changes, RqFields, RqShape, PassedInv, HeldInv, FormInv, PinInv, FieldsInv
    <3>9. SendsInv(rq') /\ AnswerInv(rq')
      BY <2>1, <2>4, <3>1, UnsentKeeps DEF Changes, RqFields
    <3> QED BY <3>8, <3>9 DEF RequestInv
  <2> QED BY <1>3, <2>2, <2>3, <2>4 DEF Reinspect, AdvanceTo
<1> QED BY <1>1, <1>2, <1>3

\* The last header passes leave the established identity and the gateway's own
\* forwarding fields, whatever the request, a policy or a transform put there.
LEMMA RewrittenFinal ==
  ASSUME RequestInv(rq), RewriteHeaders
  PROVE  FieldsFinal(rq, rq'.fields) /\ rq'.fields = [f \in Fields |-> rq'.fields[f]]
<1> DEFINE forwarded == SetForwarding(StripForwarding(rq.fields))
           asserted == Reassert(forwarded, rq.established)
<1>1. rq'.fields = IF rq.consumed THEN [asserted EXCEPT !["authorization"] = "absent"] ELSE asserted
  BY DEF RewriteHeaders, AdvanceTo, RequestInv, RqShape, RqFields
<1>2. forwarded["forwarded"] = "gateway"
  BY DEF RequestInv, RqShape, SetForwarding, StripForwarding, Fields
<1> HIDE DEF forwarded
<1>3. /\ asserted["identity"] \in {"absent", "established"} /\ asserted["fwdIdentity"] \in {"absent", "established"}
      /\ \A f \in rq.established : asserted[f] = "established" /\ f # "authorization"
      /\ asserted["forwarded"] = "gateway"
  BY <1>2 DEF RequestInv, RqShape, Reassert, Fields
<1>4. asserted = [f \in Fields |-> asserted[f]]
  BY DEF Reassert
<1> HIDE DEF asserted
<1>5. CASE rq.consumed
  BY <1>1, <1>3, <1>4, <1>5 DEF FieldsFinal, Fields
<1>6. CASE ~rq.consumed
  BY <1>1, <1>3, <1>4, <1>6 DEF FieldsFinal
<1> QED BY <1>5, <1>6

\* The member's lease and the last rewriting before the attempts.
LEMMA LeaseKeeps ==
  ASSUME RequestInv(rq), LeaseBackend \/ RewriteHeaders
  PROVE  RequestInv(rq')
<1>1. CASE LeaseBackend
  <2>1. rq.pc = "leasing"
    BY <1>1 DEF LeaseBackend, RequestAt
  <2>2. CASE rq' = Answered(rq, "503")
    BY <2>1, <2>2, AnsweredKeeps
  <2>3. CASE rq' = [rq EXCEPT !.pc = "rewriting", !.held = @ \cup {"backend"}]
    <3>1. Changes({"pc", "held"}) /\ rq'.pc = "rewriting" /\ rq'.held = rq.held \cup {"backend"}
      BY <2>3 DEF RequestInv, RqShape, RqFields, Changes
    <3>8. RqShape(rq') /\ PassedInv(rq') /\ HeldInv(rq') /\ FormInv(rq') /\ PinInv(rq') /\ FieldsInv(rq')
      BY <2>1, <3>1 DEF RequestInv, Changes, RqFields, RqShape, PassedInv, HeldInv, FormInv, PinInv, FieldsInv
    <3>9. SendsInv(rq') /\ AnswerInv(rq')
      BY <2>1, <3>1, UnsentKeeps DEF Changes, RqFields
    <3> QED BY <3>8, <3>9 DEF RequestInv
  <2> QED BY <1>1, <2>2, <2>3 DEF LeaseBackend, AdvanceTo
<1>2. CASE RewriteHeaders
  <2>1. Changes({"pc", "fields"}) /\ rq'.pc = "attempting" /\ rq.pc = "rewriting"
    BY <1>2 DEF RewriteHeaders, RequestAt, AdvanceTo, RequestInv, RqShape, RqFields, Changes
  <2>2. FieldsFinal(rq', rq'.fields) /\ rq'.fields = [f \in Fields |-> rq'.fields[f]]
    BY <1>2, <2>1, RewrittenFinal DEF FieldsFinal, Changes, RqFields
  <2>8. RqShape(rq') /\ PassedInv(rq') /\ HeldInv(rq') /\ FormInv(rq') /\ PinInv(rq') /\ FieldsInv(rq')
    BY <2>1, <2>2 DEF RequestInv, Changes, RqFields, RqShape, PassedInv, HeldInv, FormInv, PinInv, FieldsInv
  <2>9. SendsInv(rq') /\ AnswerInv(rq')
    BY <2>1, UnsentKeeps DEF Changes, RqFields
  <2> QED BY <2>8, <2>9 DEF RequestInv
<1> QED BY <1>1, <1>2

\* An attempt is sealed: a native route replaces the credential.
LEMMA PrepareKeeps ==
  ASSUME RequestInv(rq), PrepareAttempt
  PROVE  RequestInv(rq')
<1>1. rq.pc = "attempting"
  BY DEF PrepareAttempt, RequestAt
<1>2. CASE \E reply \in {"413", "403", "503"} : rq' = Answered(rq, reply)
  BY <1>1, <1>2, AnsweredKeeps
<1>3. CASE rq' = [rq EXCEPT !.pc = "dispatching", !.attempts = @ + 1,
                    !.passed = IF "native" \in route THEN @ \cup {"native"} ELSE @,
                    !.fields = IF "native" \in route THEN [@ EXCEPT !["authorization"] = "native"] ELSE @,
                    !.guarded = @ \/ ("transform" \in route /\ rq.lease # <<>>)]
  <2>1. /\ Changes({"pc", "attempts", "passed", "fields", "guarded"}) /\ rq'.pc = "dispatching"
        /\ rq'.passed = IF "native" \in route THEN rq.passed \cup {"native"} ELSE rq.passed
        /\ rq'.fields = IF "native" \in route
                        THEN [rq.fields EXCEPT !["authorization"] = "native"] ELSE rq.fields
    BY <1>3 DEF RequestInv, RqShape, RqFields, Changes
  <2>2. rq'.fields = [f \in Fields |-> rq'.fields[f]]
    BY <2>1 DEF RequestInv, RqShape
  <2>3. FieldsFinal(rq, rq.fields) /\ rq.established \subseteq {"identity", "fwdIdentity"}
        /\ rq.fields = [f \in Fields |-> rq.fields[f]]
    BY <1>1 DEF RequestInv, FieldsInv, RqShape
  <2>4. /\ \A f \in Fields \ {"authorization"} : rq'.fields[f] = rq.fields[f]
        /\ rq'.fields["authorization"] \in {"native", rq.fields["authorization"]}
        /\ rq'.established = rq.established /\ rq'.consumed = rq.consumed
    BY <2>1, <2>3 DEF Changes, RqFields, Fields
  <2>5. FieldsFinal(rq', rq'.fields)
    BY <2>3, <2>4 DEF FieldsFinal, Fields
  <2>8. RqShape(rq') /\ PassedInv(rq') /\ HeldInv(rq') /\ FormInv(rq') /\ PinInv(rq') /\ FieldsInv(rq')
    BY <1>1, <2>1, <2>2, <2>5 DEF RequestInv, Changes, RqFields, RqShape, PassedInv, HeldInv, FormInv, PinInv, FieldsInv
  <2>9. SendsInv(rq') /\ AnswerInv(rq')
    BY <1>1, <2>1, UnsentKeeps DEF Changes, RqFields
  <2> QED BY <2>8, <2>9 DEF RequestInv
<1> QED BY <1>2, <1>3 DEF PrepareAttempt, AdvanceTo

\* The request is written, for the first time.
LEMMA TransmitKeeps ==
  ASSUME RequestInv(rq), Transmit
  PROVE  RequestInv(rq')
<1>1. /\ Changes({"pc", "sends"}) /\ rq'.pc = "awaiting" /\ rq.pc = "connecting"
      /\ rq'.sends = rq.sends \cup {Transmission}
  BY DEF Transmit, RequestAt, AdvanceTo, RequestInv, RqShape, RqFields, Changes
<1>2. RqShape(rq') /\ PassedInv(rq') /\ HeldInv(rq') /\ FormInv(rq') /\ PinInv(rq') /\ FieldsInv(rq')
  BY <1>1 DEF RequestInv, Changes, RqFields, RqShape, PassedInv, HeldInv, FormInv, PinInv, FieldsInv, FieldsFinal
<1>3. rq'.sends = {Transmission}
  BY <1>1 DEF RequestInv, SendsInv
<1>4. SentSound(rq, Transmission)
  <2>1. Required \subseteq rq.passed
    BY <1>1 DEF RequestInv, PassedInv, Required
  <2>2. "blocks" \in route => rq.inspected = rq.form
    BY <1>1 DEF RequestInv, FormInv
  <2>3. FieldsFinal(rq, rq.fields) /\ (rq.pinned # NoMember => rq.member = rq.pinned)
    BY <1>1 DEF RequestInv, FieldsInv, PinInv
  <2>4. CarriesGate => SnapshotActive
    BY DEF Transmit
  <2> QED BY <2>1, <2>2, <2>3, <2>4 DEF SentSound, Transmission
<1>5. SentSound(rq', Transmission)
  BY <1>1, <1>4 DEF SentSound, FieldsFinal, Changes, RqFields
<1>6. SendsInv(rq')
  BY <1>1, <1>3, <1>5 DEF SendsInv
<1>7. AnswerInv(rq')
  BY <1>1 DEF RequestInv, Changes, RqFields, AnswerInv
<1> QED BY <1>2, <1>6, <1>7 DEF RequestInv

\* Only a request that nothing pinned is attempted at another member.
LEMMA AttemptsKeep ==
  ASSUME RequestInv(rq), FenceDispatch \/ StartSend \/ ConnectFailed
  PROVE  RequestInv(rq')
<1>1. CASE FenceDispatch
  <2>1. CASE rq' = [rq EXCEPT !.pc = "sending"]
    BY <1>1, <2>1, MovesKeep DEF FenceDispatch, RequestAt, SameDuties
  <2> QED BY <1>1, <2>1, AnsweredKeeps DEF FenceDispatch, RequestAt, AdvanceTo
<1>2. CASE StartSend
  <2>1. CASE rq' = [rq EXCEPT !.pc = "connecting"]
    BY <1>2, <2>1, MovesKeep DEF StartSend, RequestAt, SameDuties
  <2> QED BY <1>2, <2>1, AnsweredKeeps DEF StartSend, RequestAt, AdvanceTo
<1>3. CASE ConnectFailed
  <2>1. rq.pc = "connecting"
    BY <1>3 DEF ConnectFailed, RequestAt
  <2>2. CASE \E reply \in {"502", "504", "retired"} : rq' = Answered(rq, reply)
    BY <2>1, <2>2, AnsweredKeeps
  <2>3. CASE Retryable /\ \E m \in HttpMembers : rq' = [rq EXCEPT !.pc = "attempting", !.member = m]
    <3>1. Changes({"pc", "member"}) /\ rq'.pc = "attempting" /\ rq.pinned = NoMember
      BY <2>3 DEF Retryable, RequestInv, RqShape, RqFields, Changes
    <3>2. FieldsFinal(rq', rq'.fields)
      BY <2>1, <3>1 DEF RequestInv, FieldsInv, FieldsFinal, Changes, RqFields
    <3>8. RqShape(rq') /\ PassedInv(rq') /\ HeldInv(rq') /\ FormInv(rq') /\ PinInv(rq') /\ FieldsInv(rq')
      BY <2>1, <3>1, <3>2 DEF RequestInv, Changes, RqFields, RqShape, PassedInv, HeldInv, FormInv, PinInv, FieldsInv
    <3>9. SendsInv(rq') /\ AnswerInv(rq')
      BY <2>1, <3>1, UnsentKeeps DEF Changes, RqFields
    <3> QED BY <3>8, <3>9 DEF RequestInv
  <2> QED BY <1>3, <2>2, <2>3 DEF ConnectFailed, AdvanceTo
<1> QED BY <1>1, <1>2, <1>3

\* The origin answers or not; a tunnel is registered and spawned.
LEMMA ExchangeKeeps ==
  ASSUME RequestInv(rq), ExchangeFailed \/ RetiredInFlight \/ ResponseHead \/ RegisterTunnel \/ SpawnTunnel
  PROVE  RequestInv(rq')
<1>1. CASE ExchangeFailed
  BY <1>1, AnsweredKeeps DEF ExchangeFailed, RequestAt, AdvanceTo
<1>2. CASE RetiredInFlight
  BY <1>2, AnsweredKeeps DEF RetiredInFlight, AdvanceTo
<1>3. CASE ResponseHead
  <2>1. CASE rq' = [rq EXCEPT !.pc = "upgrading"] \/ rq' = [rq EXCEPT !.pc = "shaping"]
    BY <1>3, <2>1, MovesKeep DEF ResponseHead, RequestAt, SameDuties
  <2>2. CASE rq' = Answered(rq, "502")
    BY <1>3, <2>2, AnsweredKeeps DEF ResponseHead, RequestAt
  <2> QED BY <1>3, <2>1, <2>2 DEF ResponseHead, AdvanceTo
<1>4. CASE RegisterTunnel
  BY <1>4, MovesKeep DEF RegisterTunnel, RequestAt, SameDuties
<1>5. CASE SpawnTunnel
  <2>1. CASE rq' = [rq EXCEPT !.pc = "shaping"]
    BY <1>5, <2>1, MovesKeep DEF SpawnTunnel, RequestAt, SameDuties
  <2> QED BY <1>5, <2>1, AnsweredKeeps DEF SpawnTunnel, RequestAt
<1> QED BY <1>1, <1>2, <1>3, <1>4, <1>5

\* The response takes over the permits and the lease's guard.
LEMMA ResponseKeeps ==
  ASSUME RequestInv(rq), ShapeResponse \/ AttachLeases
  PROVE  RequestInv(rq')
<1>1. CASE ShapeResponse
  <2>1. CASE rq' = [rq EXCEPT !.pc = "attaching"]
    BY <1>1, <2>1, MovesKeep DEF ShapeResponse, RequestAt, SameDuties
  <2> QED BY <1>1, <2>1, AnsweredKeeps DEF ShapeResponse, RequestAt, AdvanceTo
<1>2. CASE AttachLeases
  <2>1. /\ Changes({"pc", "answer", "held", "guarded"}) /\ rq'.pc = "answered" /\ rq.pc = "attaching"
        /\ rq'.answer = "origin" /\ rq'.held = rq.held \cap {"request", "route", "backend"}
        /\ rq'.guarded = (rq.lease # <<>>)
    BY <1>2 DEF AttachLeases, RequestAt, AdvanceTo, RequestInv, RqShape, RqFields, Changes
  <2>2. RqShape(rq') /\ PassedInv(rq') /\ HeldInv(rq') /\ FormInv(rq') /\ PinInv(rq') /\ FieldsInv(rq')
    BY ZenonT(60), <2>1 DEF RequestInv, Changes, RqFields, RqShape, PassedInv, HeldInv, FormInv, PinInv, FieldsInv
  <2>3. SendsInv(rq')
    BY <2>1 DEF RequestInv, Changes, RqFields, SendsInv, SentSound, FieldsFinal
  <2>4. {"request", "route", "backend"} \subseteq rq'.held
    BY <2>1 DEF RequestInv, HeldInv
  <2>5. AnswerInv(rq')
    BY <2>1, <2>4 DEF RequestInv, Changes, RqFields, AnswerInv
  <2> QED BY <2>2, <2>3, <2>5 DEF RequestInv
<1> QED BY <1>1, <1>2

\* The response is finalised, streamed and ended.
LEMMA StreamKeeps ==
  ASSUME RequestInv(rq), Finalise \/ FinaliseRefusal \/ BodyEnds \/ DeliverFrame
  PROVE  RequestInv(rq')
<1>1. /\ Changes({"pc", "secured", "observation", "answer", "held", "guarded"})
      /\ rq.pc \in Over /\ rq'.pc \in {"streaming", "done"} /\ rq'.secured = 1 /\ rq'.observation # "captured"
  <2>1. CASE Finalise
    BY ZenonT(60), <2>1 DEF Finalise, RequestAt, AdvanceTo, RequestInv, AnswerInv, RqShape, RqFields, Changes
  <2>2. CASE FinaliseRefusal
    <3>1. rq.pc = "refused" /\ rq.secured = 0 /\ rq.observation = "none"
      BY <2>2 DEF FinaliseRefusal, RequestAt, RequestInv, AnswerInv
    <3>2. Changes({"pc", "secured"}) /\ rq'.pc = "streaming" /\ rq'.secured = rq.secured + 1
      BY <2>2 DEF FinaliseRefusal, AdvanceTo, RequestInv, RqShape, RqFields, Changes
    <3> QED BY <3>1, <3>2 DEF Changes, RqFields
  <2>3. CASE BodyEnds
    BY <2>3 DEF BodyEnds, RequestAt, AdvanceTo, RequestInv, AnswerInv, RqShape, RqFields, Changes
  <2>4. CASE DeliverFrame
    BY <2>4 DEF DeliverFrame, RequestAt, AdvanceTo, RequestInv, AnswerInv, RqShape, RqFields, Changes
  <2> QED BY <2>1, <2>2, <2>3, <2>4
<1>2. RqShape(rq') /\ PassedInv(rq') /\ HeldInv(rq') /\ FormInv(rq') /\ PinInv(rq') /\ FieldsInv(rq')
  BY <1>1 DEF RequestInv, Changes, RqFields, RqShape, PassedInv, HeldInv, FormInv, PinInv, FieldsInv
<1>3. SendsInv(rq')
  BY <1>1 DEF RequestInv, Changes, RqFields, SendsInv, SentSound, FieldsFinal
<1>4. AnswerInv(rq')
  <2>1. CASE Finalise
    BY <1>1, <2>1 DEF Finalise, RequestAt, AdvanceTo, RequestInv, RqShape, RqFields, Changes, AnswerInv
  <2>2. CASE FinaliseRefusal
    BY <1>1, <2>2 DEF FinaliseRefusal, RequestAt, AdvanceTo, RequestInv, RqShape, RqFields, Changes, AnswerInv
  <2>3. CASE BodyEnds
    BY <1>1, <2>3 DEF BodyEnds, RequestAt, AdvanceTo, RequestInv, RqShape, RqFields, Changes, AnswerInv
  <2>4. CASE DeliverFrame
    BY <1>1, <2>4 DEF DeliverFrame, RequestAt, AdvanceTo, RequestInv, RqShape, RqFields, Changes, AnswerInv
  <2> QED BY <2>1, <2>2, <2>3, <2>4
<1> QED BY <1>2, <1>3, <1>4 DEF RequestInv

\* A retired lease ends the handler at its next check.
LEMMA RetireKeeps ==
  ASSUME RequestInv(rq), NEW stage \in Retirable, Retire(stage)
  PROVE  RequestInv(rq')
BY AnsweredKeeps DEF Retire, RequestAt, AdvanceTo, Retirable

HIDE DEF Wrote, Sealed, Rewritten, Backed, Accepted, Chosen, Authorised, BasicDone, JwtDone, Routed,
         Gated, Filtered, Admitted, Early, Over

\* The route does not change under the request.
LEMMA RequestInvMoves ==
  ASSUME RequestInv(rq'), UNCHANGED route
  PROVE  RequestInv(rq)'
BY DEF RequestInv, RqShape, PassedInv, HeldInv, FormInv, PinInv, FieldsInv, SendsInv, SentSound, CarriesGate, Required, AnswerInv

\* Shutdown waits for the tokens of tunnels, and a closed tracker spawns none.
LEMMA TunnelKeeps ==
  ASSUME TunnelInv, PipelineNext
  PROVE  TunnelInv'
<1>1. CASE UNCHANGED <<tunnel, tunnelsClosed, stop>>
  BY <1>1 DEF TunnelInv
<1>2. CASE RegisterTunnel \/ SpawnTunnel \/ TunnelEnds \/ CloseTunnels \/ ShutdownWaited \/ ShutdownCancels
  BY <1>2 DEF TunnelInv, RegisterTunnel, SpawnTunnel, TunnelEnds, CloseTunnels, ShutdownWaited, ShutdownCancels
<1> QED BY <1>1, <1>2 DEF PipelineNext, OnlyRequest, Handle, Screen, HealthProbe, AdmitRequest, Normalise,
      ResolveEdge, ObserveFailures, PathPolicies, CheckRates, InspectRequest, FenceAdmission, MatchRoute,
      WorkloadGate, AdmitRoute, CacheLookup, JwtGate, BasicGate, GuardBody, AuthVerify, AuthConclude, BindMachine,
      ResourceDecision, InstallIdentity, NoExternalAuth, SelectMember, PolicyDecision, Preconditions,
      TransformRequest, Reinspect, LeaseBackend, RewriteHeaders, PrepareAttempt, FenceDispatch, StartSend,
      Transmit, ConnectFailed, ExchangeFailed, RetiredInFlight, ResponseHead, ShapeResponse, AttachLeases,
      Finalise, FinaliseRefusal, BodyEnds, DeliverFrame, Retire, PublishParts, AuthorityMoves

\* The route is chosen once, before the request arrives.
LEMMA RouteFixed ==
  ASSUME PipelineNext
  PROVE  route' = route
BY DEF PipelineNext, OnlyRequest, Handle, Screen, HealthProbe, AdmitRequest, Normalise,
   ResolveEdge, ObserveFailures, PathPolicies, CheckRates, InspectRequest, FenceAdmission, MatchRoute,
   WorkloadGate, AdmitRoute, CacheLookup, JwtGate, BasicGate, GuardBody, AuthVerify, AuthConclude, BindMachine,
   ResourceDecision, InstallIdentity, NoExternalAuth, SelectMember, PolicyDecision, Preconditions,
   TransformRequest, Reinspect, LeaseBackend, RewriteHeaders, PrepareAttempt, FenceDispatch, StartSend,
   Transmit, ConnectFailed, ExchangeFailed, RetiredInFlight, ResponseHead, ShapeResponse, AttachLeases,
   Finalise, FinaliseRefusal, BodyEnds, DeliverFrame, Retire, PublishParts, AuthorityMoves, RegisterTunnel,
   SpawnTunnel, TunnelEnds, CloseTunnels, ShutdownWaited, ShutdownCancels

\* A step of the handler, or of what moves underneath it.
LEMMA PipelineKeeps ==
  ASSUME PipelineInv, PipelineNext
  PROVE  PipelineInv'
<1>1. RequestInv(rq) /\ TunnelInv
  BY DEF PipelineInv
<1>2. RequestInv(rq')
  <2>1. CASE rq' = rq
    BY <1>1, <2>1
  <2>2. CASE Handle \/ Screen \/ HealthProbe \/ AdmitRequest
    BY <1>1, <2>2, ScreenKeeps
  <2>3. CASE Normalise \/ ResolveEdge \/ ObserveFailures \/ PathPolicies \/ CheckRates \/ FenceAdmission
    BY <1>1, <2>3, FiltersKeep
  <2>4. CASE InspectRequest
    BY <1>1, <2>4, InspectKeeps
  <2>5. CASE MatchRoute \/ WorkloadGate \/ AdmitRoute
    BY <1>1, <2>5, RouteKeeps
  <2>6. CASE CacheLookup
    BY <1>1, <2>6, CacheLookupKeeps
  <2>7. CASE JwtGate \/ BasicGate
    BY <1>1, <2>7, GatesKeep
  <2>8. CASE GuardBody \/ AuthVerify \/ AuthConclude \/ BindMachine
    BY <1>1, <2>8, AuthKeeps
  <2>9. CASE ResourceDecision \/ InstallIdentity \/ NoExternalAuth \/ SelectMember
    BY <1>1, <2>9, PermissionKeeps
  <2>10. CASE PolicyDecision
    BY <1>1, <2>10, PolicyKeeps
  <2>11. CASE Preconditions \/ TransformRequest \/ Reinspect
    BY <1>1, <2>11, TransformKeeps
  <2>12. CASE LeaseBackend \/ RewriteHeaders
    BY <1>1, <2>12, LeaseKeeps
  <2>13. CASE PrepareAttempt
    BY <1>1, <2>13, PrepareKeeps
  <2>14. CASE FenceDispatch \/ StartSend \/ ConnectFailed
    BY <1>1, <2>14, AttemptsKeep
  <2>15. CASE Transmit
    BY <1>1, <2>15, TransmitKeeps
  <2>16. CASE ExchangeFailed \/ RetiredInFlight \/ ResponseHead \/ RegisterTunnel \/ SpawnTunnel
    BY <1>1, <2>16, ExchangeKeeps
  <2>17. CASE ShapeResponse \/ AttachLeases
    BY <1>1, <2>17, ResponseKeeps
  <2>18. CASE Finalise \/ FinaliseRefusal \/ BodyEnds \/ DeliverFrame
    BY <1>1, <2>18, StreamKeeps
  <2>19. CASE \E stage \in Retirable : Retire(stage)
    BY <1>1, <2>19, RetireKeeps
  <2>20. CASE \/ TunnelEnds \/ CloseTunnels \/ ShutdownWaited \/ ShutdownCancels
              \/ \E changed \in SUBSET Published : PublishParts(changed)
              \/ \E part \in {"jwt", "remote", "expiry"} : AuthorityMoves(part)
    BY <2>1, <2>20 DEF TunnelEnds, CloseTunnels, ShutdownWaited, ShutdownCancels, PublishParts, AuthorityMoves
  <2> QED BY <2>2, <2>3, <2>4, <2>5, <2>6, <2>7, <2>8, <2>9, <2>10, <2>11, <2>12, <2>13, <2>14, <2>15, <2>16,
        <2>17, <2>18, <2>19, <2>20 DEF PipelineNext
<1>3. RequestInv(rq)'
  BY <1>2, RequestInvMoves, RouteFixed
<1> QED BY <1>1, <1>3, TunnelKeeps DEF PipelineInv

\* A request arrives with nothing passed, held, inspected or sent.
LEMMA PipelineInvInit ==
  ASSUME PipelineInit
  PROVE  PipelineInv
<1>1. rq = Arrived
  BY DEF PipelineInit
<1>2. RqShape(rq) /\ rq.pc = "arrived" /\ rq.sends = {} /\ rq.secured = 0 /\ rq.observation = "none"
      /\ rq.answer = "none" /\ rq.pinned = NoMember
  BY <1>1 DEF Arrived, RqShape, RqFields, Early
<1>3. PassedInv(rq) /\ HeldInv(rq) /\ FormInv(rq) /\ PinInv(rq) /\ FieldsInv(rq)
  BY <1>2 DEF PassedInv, HeldInv, FormInv, PinInv, FieldsInv, Wrote, Sealed, Rewritten, Backed, Accepted, Chosen,
     Authorised, BasicDone, JwtDone, Routed, Gated, Filtered, Admitted
<1>4. SendsInv(rq) /\ AnswerInv(rq)
  BY <1>2 DEF SendsInv, AnswerInv
<1>5. TunnelInv
  BY DEF PipelineInit, TunnelInv
<1> QED BY <1>2, <1>3, <1>4, <1>5 DEF PipelineInv, RequestInv

\* For every route, whatever features it combines, and every request: what
\* reaches an origin passed every authenticator of the route, in the form the
\* blocks accepted and with the identity established here, at most once; the
\* response is finalised and observed once and holds its permits to its end;
\* and no tunnel outlives a shutdown that waited (proxy.rs).
THEOREM RequestsSound == PipelineSpec => []PipelineSound
<1>1. PipelineInit => PipelineInv
  BY PipelineInvInit
<1>2. PipelineInv /\ [PipelineNext]_pipeVars => PipelineInv'
  <2> SUFFICES ASSUME PipelineInv, [PipelineNext]_pipeVars PROVE PipelineInv'
    OBVIOUS
  <2>1. CASE PipelineNext
    BY <2>1, PipelineKeeps
  <2>2. CASE UNCHANGED pipeVars
    <3>1. RequestInv(rq') /\ TunnelInv' /\ route' = route
      BY <2>2 DEF PipelineInv, TunnelInv, pipeVars
    <3> QED BY <3>1, RequestInvMoves DEF PipelineInv
  <2> QED BY <2>1, <2>2
<1>3. PipelineInv => PipelineSound
  <2> SUFFICES ASSUME PipelineInv PROVE PipelineSound
    OBVIOUS
  <2>1. DispatchSound
    <3>1. CASE rq.sends = {}
      BY <3>1, FS_EmptySet DEF DispatchSound
    <3>2. CASE rq.sends # {}
      <4>1. PICK sent : rq.sends = {sent} /\ SentSound(rq, sent)
        BY <3>2 DEF PipelineInv, RequestInv, SendsInv
      <4>2. Cardinality(rq.sends) = 1
        BY <4>1, FS_Singleton
      <4> QED BY <4>1, <4>2 DEF DispatchSound, SentSound, FieldsFinal
    <3> QED BY <3>1, <3>2
  <2>2. ResponseSound
    BY DEF ResponseSound, PipelineInv, RequestInv, AnswerInv
  <2> QED BY <2>1, <2>2 DEF PipelineSound, PipelineInv, TunnelInv, TunnelsDrained
<1> QED BY <1>1, <1>2, <1>3, PTL DEF PipelineSpec

-----------------------------------------------------------------------------
(* The response cache *)

----------------------------------------------------------------------------
(* The response cache: its inductive invariant *)

Tokens == [generation : Generations, local : Nat]
Lookups == [at : Steps, key : Keys, token : Tokens, version : Int, retry : BOOLEAN]

CacheTypeOK ==
  /\ origin \in Nat /\ floor \in 0..origin
  /\ token \in Tokens
  /\ memory \in [Keys -> Int] /\ disk \in [Keys -> Int]
  /\ request \in [Requests -> Lookups]

\* In these steps a request carries a version that it may still serve or store.
Carries == {"promote", "insert", "found", "captured", "putting", "storing"}

\* A key carries the generation of its request's token, and tokens only move on.
TokenOrdered(q) ==
  /\ q.key[2] = q.token.generation
  /\ q.token.generation <= token.generation
  /\ q.token.local <= token.local

\* The publication lock: no purge overtakes a request that holds its read side,
\* and during a purge no request of the new token got past the lock.
LockHeld(q) ==
  /\ q.at \in Locked => q.token.local = token.local /\ purger # "locked"
  /\ purger = "locked" /\ q.token = token => q.at \in {"idle", "arrived"}

\* What a current request found or captured is no older than the last invalidation.
CarriesFresh(q) == q.token = token /\ q.at \in Carries => q.version >= floor

LookupInv(q) == TokenOrdered(q) /\ LockHeld(q) /\ CarriesFresh(q)

\* Entries of the current generation are as fresh; there are none of a later one.
EntryFresh(tier) ==
  \A k \in Keys : tier[k] # Nothing =>
    k[2] <= token.generation /\ (k[2] = token.generation => tier[k] >= floor)

\* Fills have distinct keys and hold a permit each.
FillsInv ==
  /\ \A r, s \in Fills : request[r].key = request[s].key => r = s
  /\ Cardinality(Fills) <= MaxFills

CacheInv ==
  /\ CacheTypeOK /\ EntryFresh(memory) /\ EntryFresh(disk)
  /\ purger = "locked" => memory = NoEntries
  /\ FillsInv
  /\ \A r \in Requests : LookupInv(request[r])

\* A step may replace a request by q: it keeps the invariant of one request, a
\* hit is fresh, and a fill is an old one of this key or a new one with a permit.
Fits(r, q) ==
  /\ q \in Lookups /\ LookupInv(q)
  /\ q.at = "hit" => q.version >= floor
  /\ q.at \in Held =>
       \/ request[r].at \in Held /\ request[r].key = q.key
       \/ Filling(q.key) = {} /\ Permit

\* The lookup with no answer is a request of every state.
LEMMA QuietFits ==
  ASSUME CacheInv, NEW r \in Requests
  PROVE  Fits(r, Quiet)
<1>1. Quiet.key \in Keys /\ Quiet.key[2] = 0
  BY CacheBounds DEF Quiet, Keys, Generations
<1>2. Quiet.token \in Tokens /\ Quiet.token.generation = 0 /\ Quiet.token.local = 0
  BY CacheBounds DEF Quiet, Tokens, Generations
<1>3. Quiet.at = "idle" /\ Quiet.version = -1 /\ Quiet.retry = FALSE
  BY DEF Quiet, Nothing
<1>4. Quiet \in Lookups
  <2>1. \A k \in Keys, u \in Tokens :
          [at |-> "idle", key |-> k, token |-> u, version |-> -1, retry |-> FALSE] \in Lookups
    BY DEF Lookups, Steps
  <2>2. Quiet = [at |-> "idle", key |-> Quiet.key, token |-> Quiet.token,
                 version |-> -1, retry |-> FALSE]
    BY DEF Quiet, Nothing
  <2> QED BY <2>1, <2>2, <1>1, <1>2
<1>5. LookupInv(Quiet)
  BY <1>1, <1>2, <1>3, CacheBounds
     DEF CacheInv, CacheTypeOK, Tokens, Generations, LookupInv, TokenOrdered, LockHeld, CarriesFresh,
         Locked, Carries
<1> QED BY <1>3, <1>4, <1>5 DEF Fits, Held

\* The fills stay distinct and within the permits when one request is replaced.
LEMMA FillsKept ==
  ASSUME CacheInv, NEW r \in Requests, NEW q, Fits(r, q),
         request' = [request EXCEPT ![r] = q]
  PROVE  FillsInv'
<1>1. request'[r] = q /\ \A s \in Requests : s # r => request'[s] = request[s]
  BY DEF CacheInv, CacheTypeOK
<1>2. IsFiniteSet(Fills)
  BY CacheBounds, FS_Subset DEF Fills
<1>3. Cardinality(Fills) \in Nat /\ Cardinality(Fills) <= MaxFills
  BY <1>2, FS_CardinalityType DEF CacheInv, FillsInv
<1>4. CASE q.at \in Held /\ ~(request[r].at \in Held /\ request[r].key = q.key)
  <2>1. Filling(q.key) = {} /\ Permit
    BY <1>4 DEF Fits
  <2>2. Fills' \subseteq Fills \cup {r}
    BY <1>1 DEF Fills
  <2>3. Cardinality(Fills \cup {r}) <= MaxFills /\ IsFiniteSet(Fills \cup {r})
    <3>1. Cardinality(Fills) + 1 <= MaxFills
      BY <2>1, <1>3, CacheBounds DEF Permit
    <3>2. Cardinality(Fills \cup {r}) \in {Cardinality(Fills), Cardinality(Fills) + 1}
          /\ IsFiniteSet(Fills \cup {r})
      BY <1>2, FS_AddElement
    <3> QED BY <3>1, <3>2, <1>3, CacheBounds
  <2>4. Cardinality(Fills') <= Cardinality(Fills \cup {r}) /\ IsFiniteSet(Fills')
    BY <2>2, <2>3, FS_Subset
  <2>5. Cardinality(Fills') \in Nat /\ Cardinality(Fills \cup {r}) \in Nat
    BY <2>3, <2>4, FS_CardinalityType
  <2>6. Cardinality(Fills') <= MaxFills
    BY <2>3, <2>4, <2>5, CacheBounds
  <2>7. ASSUME NEW s \in Fills', NEW t \in Fills', request'[s].key = request'[t].key
        PROVE  s = t
    BY <2>7, <2>1, <1>1 DEF Fills, Filling, CacheInv, FillsInv
  <2> QED BY <2>6, <2>7 DEF FillsInv
<1>5. CASE q.at \notin Held \/ (request[r].at \in Held /\ request[r].key = q.key)
  <2>1. Fills' \subseteq Fills
    BY <1>1, <1>5 DEF Fills
  <2>2. Cardinality(Fills') <= Cardinality(Fills) /\ IsFiniteSet(Fills')
    BY <2>1, <1>2, FS_Subset
  <2>3. Cardinality(Fills') <= MaxFills
    BY <2>2, <1>3, FS_CardinalityType, CacheBounds
  <2>4. ASSUME NEW s \in Fills', NEW t \in Fills', request'[s].key = request'[t].key
        PROVE  s = t
    BY <2>4, <2>1, <1>1, <1>5 DEF Fills, CacheInv, FillsInv
  <2> QED BY <2>3, <2>4 DEF FillsInv
<1> QED BY <1>4, <1>5

\* Replacing one request keeps every request in order and serves nothing stale.
LEMMA RequestReplaced ==
  ASSUME CacheInv, NEW r \in Requests, NEW q, Fits(r, q),
         request' = [request EXCEPT ![r] = q],
         UNCHANGED <<token, purger, floor>>
  PROVE  /\ request' \in [Requests -> Lookups]
         /\ FillsInv'
         /\ \A s \in Requests : LookupInv(request[s])'
         /\ FreshAfterInvalidation
<1>1. request'[r] = q /\ \A s \in Requests : s # r => request'[s] = request[s]
  BY DEF CacheInv, CacheTypeOK
<1>2. request' \in [Requests -> Lookups]
  BY DEF CacheInv, CacheTypeOK, Fits
<1>3. \A s \in Requests : LookupInv(request[s])'
  <2> SUFFICES ASSUME NEW s \in Requests PROVE LookupInv(request[s])'
    OBVIOUS
  <2>1. request'[s] \in {q, request[s]}
    BY <1>1
  <2>2. LookupInv(q) /\ LookupInv(request[s])
    BY DEF CacheInv, Fits
  <2> QED BY <2>1, <2>2 DEF LookupInv, TokenOrdered, LockHeld, CarriesFresh
<1>4. FreshAfterInvalidation
  BY <1>1 DEF FreshAfterInvalidation, Fits
<1> QED BY <1>2, <1>3, <1>4, FillsKept

\* A request that moves on keeps its key and its token.
LEMMA MovedFits ==
  ASSUME CacheInv, NEW r \in Requests, NEW q \in Lookups,
         q.key = request[r].key, q.token = request[r].token,
         q.at \in Locked => Reading(r) \/ (Current(r) /\ purger # "locked"),
         Current(r) /\ purger = "locked" => q.at \in {"idle", "arrived"},
         Current(r) /\ q.at \in Carries => q.version >= floor,
         q.at = "hit" => q.version >= floor,
         q.at \in Held => request[r].at \in Held \/ (Filling(request[r].key) = {} /\ Permit)
  PROVE  Fits(r, q)
<1>1. LookupInv(request[r])
  BY DEF CacheInv
<1>2. LookupInv(q)
  BY <1>1 DEF LookupInv, TokenOrdered, LockHeld, CarriesFresh, Current, Reading
<1> QED BY <1>2 DEF Fits

\* The request of r is replaced by one that fits.
Moves(r) == \E q \in Lookups : Fits(r, q) /\ request' = [request EXCEPT ![r] = q]

\* A request that ends leaves with nothing.
LEMMA EndsMoves ==
  ASSUME CacheInv, NEW r \in Requests, Ends(r)
  PROVE  Moves(r)
BY QuietFits DEF Ends, Moves, Fits

\* When a request may take its next step.
MayGo(r, step, v) ==
  /\ step \in Locked => Reading(r) \/ (Current(r) /\ purger # "locked")
  /\ Current(r) /\ purger = "locked" => step \in {"idle", "arrived"}
  /\ Current(r) /\ step \in Carries => v >= floor
  /\ step = "hit" => v >= floor
  /\ step \in Held => request[r].at \in Held \/ (Filling(request[r].key) = {} /\ Permit)

\* A request that keeps its key and its token and may take its step.
LEMMA StepMoves ==
  ASSUME CacheInv, NEW r \in Requests, NEW q \in Lookups,
         q.key = request[r].key, q.token = request[r].token, MayGo(r, q.at, q.version),
         request' = [request EXCEPT ![r] = q]
  PROVE  Moves(r)
<1>1. Fits(r, q)
  BY MovedFits DEF MayGo
<1> QED BY <1>1 DEF Moves

\* The updates of the actions: a step ...
LEMMA GoesMoves ==
  ASSUME CacheInv, NEW r \in Requests, NEW step \in Steps, MayGo(r, step, request[r].version),
         Goes(r, step)
  PROVE  Moves(r)
<1>1. PICK p \in Lookups : p = request[r]
  BY DEF CacheInv, CacheTypeOK
<1> DEFINE q == [p EXCEPT !.at = step]
<1>2. q \in Lookups /\ q.at = step /\ q.version = p.version /\ q.key = p.key /\ q.token = p.token
  BY DEF Lookups
<1>3. request' = [request EXCEPT ![r] = q]
  BY <1>1 DEF Goes
<1> HIDE DEF q
<1> QED BY <1>1, <1>2, <1>3, StepMoves

\* ... or a step that takes a version with it.
LEMMA TakesMoves ==
  ASSUME CacheInv, NEW r \in Requests, NEW step \in Steps, NEW v \in Int, MayGo(r, step, v),
         request' = [request EXCEPT ![r].at = step, ![r].version = v]
  PROVE  Moves(r)
<1>1. PICK p \in Lookups : p = request[r]
  BY DEF CacheInv, CacheTypeOK
<1> DEFINE q == [p EXCEPT !.at = step, !.version = v]
<1>2. q \in Lookups /\ q.at = step /\ q.version = v /\ q.key = p.key /\ q.token = p.token
  BY DEF Lookups
<1>3. request' = [request EXCEPT ![r] = q]
  BY <1>1 DEF CacheInv, CacheTypeOK
<1> HIDE DEF q
<1> QED BY <1>1, <1>2, <1>3, StepMoves

\* Every action of a request replaces it by one that fits.
LEMMA ArriveMoves ==
  ASSUME CacheInv, NEW r \in Requests, NEW t \in Targets, Arrive(r, t)
  PROVE  Moves(r)
<1> DEFINE q == [at |-> "arrived", key |-> <<t, token.generation>>, token |-> token,
                 version |-> Nothing, retry |-> FALSE]
<1>1. token \in Tokens /\ token.generation \in Generations /\ token.local \in Nat
  BY DEF CacheInv, CacheTypeOK, Tokens
<1>2. q \in Lookups
  BY <1>1 DEF Lookups, Steps, Keys, Nothing
<1>3. q.at = "arrived" /\ q.key = <<t, token.generation>> /\ q.token = token
  OBVIOUS
<1>4. request' = [request EXCEPT ![r] = q]
  BY DEF Arrive
<1> HIDE DEF q
<1>5. LookupInv(q)
  BY <1>1, <1>3, CacheBounds
     DEF LookupInv, TokenOrdered, LockHeld, CarriesFresh, Locked, Carries, Generations
<1>6. Fits(r, q)
  BY <1>2, <1>3, <1>5 DEF Fits, Held
<1> QED BY <1>2, <1>4, <1>6 DEF Moves

\* What holds of one request before its step.
LEMMA RequestFacts ==
  ASSUME CacheInv, NEW r \in Requests
  PROVE  /\ request[r] \in Lookups /\ request[r].key \in Keys /\ request[r].version \in Int
         /\ request[r].key[2] = request[r].token.generation
         /\ Reading(r) => purger # "locked"
         /\ Reading(r) /\ request[r].token.generation = token.generation => Current(r)
         /\ purger = "locked" /\ Current(r) => request[r].at \in {"idle", "arrived"}
         /\ Current(r) /\ request[r].at \in Carries => request[r].version >= floor
<1>1. request[r] \in Lookups /\ token \in Tokens
  BY DEF CacheInv, CacheTypeOK
<1>2. LookupInv(request[r])
  BY DEF CacheInv
<1>3. request[r].key \in Keys /\ request[r].version \in Int /\ request[r].token \in Tokens
  BY <1>1 DEF Lookups
<1>4. Reading(r) /\ request[r].token.generation = token.generation => Current(r)
  BY <1>1, <1>2, <1>3 DEF LookupInv, LockHeld, Reading, Current, Tokens
<1> QED BY <1>1, <1>2, <1>3, <1>4 DEF LookupInv, TokenOrdered, LockHeld, CarriesFresh, Reading, Current

\* Reading the lock word, the memory tier or the token moves on or ends.
LEMMA LookupMoves ==
  ASSUME CacheInv, NEW r \in Requests,
         Enter(r) \/ MemoryHit(r) \/ Promote(r) \/ Serve(r) \/ LookupMisses(r)
  PROVE  Moves(r)
<1> USE RequestFacts
<1>1. CASE Enter(r)
  BY <1>1, EndsMoves, GoesMoves DEF Enter, MayGo, Steps, Locked, Carries, Held
<1>2. CASE MemoryHit(r)
  <2>1. memory[request[r].key] \in Int
    BY DEF CacheInv, CacheTypeOK
  <2>2. Current(r) => memory[request[r].key] >= floor
    BY <1>2, <2>1 DEF MemoryHit, CacheInv, EntryFresh, Current, Reading, Locked
  <2> QED BY <1>2, <2>1, <2>2, EndsMoves, TakesMoves
          DEF MemoryHit, MayGo, Steps, Locked, Carries, Held, Reading
<1>3. CASE Promote(r)
  BY <1>3, EndsMoves, GoesMoves DEF Promote, MayGo, Steps, Locked, Carries, Held, Reading
<1>4. CASE Serve(r)
  BY <1>4, EndsMoves, GoesMoves DEF Serve, MayGo, Steps, Locked, Carries, Held, Reading
<1>5. CASE LookupMisses(r)
  BY <1>5, EndsMoves, GoesMoves DEF LookupMisses, Misses, MayGo, Steps, Locked, Carries, Held, Reading
<1> QED BY <1>1, <1>2, <1>3, <1>4, <1>5

\* So do the steps of a fill.
LEMMA FillMoves ==
  ASSUME CacheInv, NEW r \in Requests,
         Register(r) \/ Wake(r) \/ Fetch(r) \/ AbandonFill(r) \/ PublishFill(r) \/ Reply(r)
  PROVE  Moves(r)
<1> USE RequestFacts
<1>1. CASE Register(r)
  BY <1>1, EndsMoves, GoesMoves DEF Register, MayGo, Steps, Locked, Carries, Held, Reading
<1>2. CASE Wake(r)
  <2>1. PICK p \in Lookups : p = request[r]
    OBVIOUS
  <2> DEFINE q == [p EXCEPT !.at = "arrived", !.retry = TRUE]
  <2>2. q \in Lookups /\ q.at = "arrived" /\ q.version = p.version /\ q.key = p.key /\ q.token = p.token
    BY DEF Lookups, Steps
  <2>3. request' = [request EXCEPT ![r] = q]
    BY <1>2, <2>1 DEF Wake, CacheInv, CacheTypeOK
  <2> HIDE DEF q
  <2> QED BY <2>1, <2>2, <2>3, StepMoves DEF MayGo, Locked, Carries, Held
<1>3. CASE Fetch(r)
  <2>1. origin \in Int /\ origin >= floor
    BY DEF CacheInv, CacheTypeOK
  <2> QED BY <1>3, <2>1, TakesMoves DEF Fetch, MayGo, Steps, Locked, Carries, Held
<1>4. CASE AbandonFill(r) \/ Reply(r)
  BY <1>4, EndsMoves DEF AbandonFill, Reply
<1>5. CASE PublishFill(r)
  BY <1>5, EndsMoves, GoesMoves DEF PublishFill, MayGo, Steps, Locked, Carries, Held
<1> QED BY <1>1, <1>2, <1>3, <1>4, <1>5

\* What a step of one request has to keep besides the requests.
LEMMA RequestKeepsCache ==
  ASSUME CacheInv, NEW r \in Requests, Moves(r), UNCHANGED <<origin, token, purger, floor>>,
         memory' \in [Keys -> Int], disk' \in [Keys -> Int],
         EntryFresh(memory)', EntryFresh(disk)',
         purger = "locked" => memory' = memory
  PROVE  CacheInv' /\ FreshAfterInvalidation
<1>1. PICK q \in Lookups : Fits(r, q) /\ request' = [request EXCEPT ![r] = q]
  BY DEF Moves
<1>2. /\ request' \in [Requests -> Lookups] /\ FillsInv' /\ FreshAfterInvalidation
      /\ \A s \in Requests : LookupInv(request[s])'
  BY <1>1, RequestReplaced
<1>3. CacheTypeOK'
  BY <1>2 DEF CacheInv, CacheTypeOK
<1>4. (purger = "locked" => memory = NoEntries)'
  BY DEF CacheInv, NoEntries
<1> QED BY <1>2, <1>3, <1>4 DEF CacheInv

\* A tier with no entries, or with one entry more, stays fresh.
LEMMA TierFacts ==
  ASSUME CacheInv
  PROVE  /\ NoEntries \in [Keys -> Int] /\ EntryFresh(NoEntries)
         /\ RowsOnOpen \in [Keys -> Int] /\ EntryFresh(RowsOnOpen)
         /\ RowsOnOpen \in {disk, NoEntries}
<1>1. NoEntries \in [Keys -> Int] /\ \A k \in Keys : NoEntries[k] = Nothing
  BY DEF NoEntries, Nothing
<1>2. EntryFresh(NoEntries)
  BY <1>1 DEF EntryFresh
<1>3. RowsOnOpen \in {disk, NoEntries}
  BY DEF RowsOnOpen
<1>4. disk \in [Keys -> Int] /\ EntryFresh(disk)
  BY DEF CacheInv, CacheTypeOK
<1> QED BY <1>1, <1>2, <1>3, <1>4

\* What a request that holds the lock writes under its key is fresh.
LEMMA EntryAdded ==
  ASSUME CacheInv, NEW r \in Requests, Reading(r), request[r].at \in Carries,
         NEW tier \in [Keys -> Int], EntryFresh(tier)
  PROVE  LET new == [tier EXCEPT ![request[r].key] = request[r].version]
         IN  new \in [Keys -> Int] /\ EntryFresh(new)
<1> DEFINE new == [tier EXCEPT ![request[r].key] = request[r].version]
<1>1. request[r].key \in Keys /\ request[r].version \in Int
      /\ request[r].key[2] = request[r].token.generation
  BY RequestFacts
<1>2. request[r].token.generation <= token.generation
  BY DEF CacheInv, LookupInv, TokenOrdered
<1>3. request[r].token.generation = token.generation => request[r].version >= floor
  BY RequestFacts
<1>4. new \in [Keys -> Int] /\ new[request[r].key] = request[r].version
      /\ \A k \in Keys : k # request[r].key => new[k] = tier[k]
  BY <1>1
<1> HIDE DEF new
<1>5. EntryFresh(new)
  BY <1>1, <1>2, <1>3, <1>4 DEF EntryFresh
<1> QED BY <1>4, <1>5 DEF new

\* The steps of a request that write no tier.
LEMMA ReadingKeepsCache ==
  ASSUME CacheInv, NEW r \in Requests, Moves(r),
         UNCHANGED <<origin, token, tierVars, purger, adopting, floor, crashes>>
  PROVE  CacheInv' /\ FreshAfterInvalidation
<1>1. memory' = memory /\ disk' = disk /\ token' = token /\ floor' = floor
  BY DEF tierVars
<1>2. memory' \in [Keys -> Int] /\ disk' \in [Keys -> Int] /\ EntryFresh(memory)' /\ EntryFresh(disk)'
  BY <1>1 DEF CacheInv, CacheTypeOK, EntryFresh
<1> QED BY <1>1, <1>2, RequestKeepsCache

\* A memory hit of the disk tier, a promotion, and the two halves of a publication.
LEMMA DiskHitKeepsCache ==
  ASSUME CacheInv, NEW r \in Requests, DiskHit(r)
  PROVE  CacheInv' /\ FreshAfterInvalidation
<1> DEFINE v == RowsOnOpen[request[r].key]
<1>1. request[r].at = "lookup" /\ Reading(r) /\ v # Nothing
  BY DEF DiskHit, Reading, Locked
<1>2. v \in Int /\ (Current(r) => v >= floor)
  BY <1>1, RequestFacts, TierFacts DEF EntryFresh, Current
<1>3. request' = [request EXCEPT ![r].at = "promote", ![r].version = v]
  BY DEF DiskHit
<1> HIDE DEF v
<1>4. MayGo(r, "promote", v)
  BY <1>1, <1>2, RequestFacts DEF MayGo, Held
<1>5. Moves(r)
  BY <1>2, <1>3, <1>4, TakesMoves DEF Steps
<1>6. memory' = memory /\ disk' = RowsOnOpen /\ UNCHANGED <<origin, token, purger, floor>>
  BY DEF DiskHit, Open
<1>7. memory' \in [Keys -> Int] /\ disk' \in [Keys -> Int] /\ EntryFresh(memory)' /\ EntryFresh(disk)'
  BY <1>6, TierFacts DEF CacheInv, CacheTypeOK, EntryFresh
<1> QED BY <1>5, <1>6, <1>7, RequestKeepsCache

\* A memory write happens under the read lock: the entry has the current token.
LEMMA MemoryWriteKeepsCache ==
  ASSUME CacheInv, NEW r \in Requests, Insert(r) \/ PutMemory(r)
  PROVE  CacheInv' /\ FreshAfterInvalidation
<1>1. request[r].at \in {"insert", "putting"} /\ Reading(r) /\ request[r].at \in Carries
  BY DEF Insert, PutMemory, Reading, Locked, Carries
<1>2. UNCHANGED <<origin, token, purger, floor, disk>>
      /\ memory' \in {memory, [memory EXCEPT ![request[r].key] = request[r].version]}
  BY DEF Insert, PutMemory
<1>3. Moves(r)
  BY <1>1, RequestFacts, GoesMoves DEF Insert, PutMemory, MayGo, Steps, Locked, Carries, Held
<1>4. memory \in [Keys -> Int] /\ EntryFresh(memory) /\ disk \in [Keys -> Int] /\ EntryFresh(disk)
  BY DEF CacheInv, CacheTypeOK
<1>5. memory' \in [Keys -> Int] /\ EntryFresh(memory')
  BY <1>1, <1>2, <1>4, EntryAdded
<1>6. EntryFresh(memory)' /\ EntryFresh(disk)'
  BY <1>2, <1>4, <1>5 DEF EntryFresh
<1>7. purger # "locked"
  BY <1>1, RequestFacts
<1> QED BY <1>2, <1>3, <1>4, <1>5, <1>6, <1>7, RequestKeepsCache

\* A row is written under the read lock, so it carries the current generation.
LEMMA StoreDiskKeepsCache ==
  ASSUME CacheInv, NEW r \in Requests, StoreDisk(r)
  PROVE  CacheInv' /\ FreshAfterInvalidation
<1>1. Reading(r) /\ request[r].at \in Carries
  BY DEF StoreDisk, Reading, Locked, Carries
<1>2. UNCHANGED <<origin, token, purger, floor, memory>>
      /\ disk' \in {disk, [RowsOnOpen EXCEPT ![request[r].key] = request[r].version]}
  BY DEF StoreDisk, Open
<1>3. Moves(r)
  BY EndsMoves DEF StoreDisk
<1>4. memory \in [Keys -> Int] /\ EntryFresh(memory) /\ disk \in [Keys -> Int] /\ EntryFresh(disk)
  BY DEF CacheInv, CacheTypeOK
<1>5. disk' \in [Keys -> Int] /\ EntryFresh(disk')
  BY <1>1, <1>2, <1>4, TierFacts, EntryAdded
<1>6. EntryFresh(memory)' /\ EntryFresh(disk)'
  BY <1>2, <1>4, <1>5 DEF EntryFresh
<1> QED BY <1>2, <1>3, <1>4, <1>5, <1>6, RequestKeepsCache

\* Every step of a request.
LEMMA RequestStepKeepsCache ==
  ASSUME CacheInv, NEW r \in Requests, CacheRequest(r)
  PROVE  CacheInv' /\ FreshAfterInvalidation
<1>1. CASE \E t \in Targets : Arrive(r, t)
  BY <1>1, ArriveMoves, ReadingKeepsCache DEF Arrive
<1>2. CASE Enter(r) \/ MemoryHit(r) \/ Promote(r) \/ Serve(r) \/ LookupMisses(r)
  BY <1>2, LookupMoves, ReadingKeepsCache DEF Enter, MemoryHit, Promote, Serve, LookupMisses
<1>3. CASE Register(r) \/ Wake(r) \/ Fetch(r) \/ AbandonFill(r) \/ PublishFill(r) \/ Reply(r)
  BY <1>3, FillMoves, ReadingKeepsCache DEF Register, Wake, Fetch, AbandonFill, PublishFill, Reply
<1> QED BY <1>1, <1>2, <1>3, DiskHitKeepsCache, MemoryWriteKeepsCache, StoreDiskKeepsCache
        DEF CacheRequest

\* A step that no request takes: the fills are the same and nothing is served.
LEMMA NoRequestMoves ==
  ASSUME CacheInv, request' = request
  PROVE  FillsInv' /\ FreshAfterInvalidation
<1>1. Fills' = Fills
  BY DEF Fills
<1> QED BY <1>1 DEF CacheInv, FillsInv, FreshAfterInvalidation

\* A purge waits, takes the write lock, and ends.
LEMMA PurgeKeepsCache ==
  ASSUME CacheInv, PurgeRequested \/ PurgeLocked \/ PurgeDisk \/ PurgeFails
  PROVE  CacheInv' /\ FreshAfterInvalidation
<1>1. FillsInv' /\ FreshAfterInvalidation /\ request' = request
  BY NoRequestMoves DEF PurgeRequested, PurgeLocked, PurgeDisk, PurgeFails
<1>2. CASE PurgeRequested \/ PurgeFails
  <2>1. UNCHANGED <<origin, token, memory, disk, request, floor>> /\ purger' \in {"waiting", "idle"}
    BY <1>2 DEF PurgeRequested, PurgeFails, tierVars
  <2>2. CacheTypeOK' /\ EntryFresh(memory)' /\ EntryFresh(disk)'
    BY <2>1 DEF CacheInv, CacheTypeOK, EntryFresh
  <2>3. \A r \in Requests : LookupInv(request[r])'
    BY <2>1 DEF CacheInv, LookupInv, TokenOrdered, LockHeld, CarriesFresh
  <2> QED BY <1>1, <2>1, <2>2, <2>3 DEF CacheInv
<1>3. CASE PurgeLocked
  <2>1. UNCHANGED <<origin, disk, request, floor>> /\ memory' = NoEntries /\ purger' = "locked"
    BY <1>3 DEF PurgeLocked
  <2>2. token \in Tokens /\ token' \in Tokens /\ token'.generation = token.generation
        /\ token'.local = token.local + 1 /\ token.local \in Nat
    BY <1>3 DEF PurgeLocked, CacheInv, CacheTypeOK, Tokens
  <2>3. CacheTypeOK'
    BY <2>1, <2>2, TierFacts DEF CacheInv, CacheTypeOK
  <2>4. EntryFresh(memory)' /\ EntryFresh(disk)'
    BY <2>1, <2>2, TierFacts DEF CacheInv, EntryFresh
  <2>5. \A r \in Requests : LookupInv(request[r])'
    <3> SUFFICES ASSUME NEW r \in Requests PROVE LookupInv(request[r])'
      OBVIOUS
    <3>1. LookupInv(request[r]) /\ request[r].at \notin Locked /\ request[r].token \in Tokens
      BY <1>3 DEF PurgeLocked, Reading, CacheInv, CacheTypeOK, Lookups
    <3>2. request[r].token # token'
      BY <2>2, <3>1 DEF LookupInv, TokenOrdered, Tokens
    <3>3. TokenOrdered(request[r])'
      BY <2>1, <2>2, <3>1 DEF LookupInv, TokenOrdered, Tokens
    <3> QED BY <2>1, <3>1, <3>2, <3>3 DEF LookupInv, LockHeld, CarriesFresh
  <2>6. (NoEntries)' = NoEntries
    BY DEF NoEntries
  <2> QED BY <1>1, <2>1, <2>3, <2>4, <2>5, <2>6 DEF CacheInv
<1>4. CASE PurgeDisk
  <2>1. UNCHANGED <<origin, token, memory, request>> /\ purger = "locked" /\ purger' = "idle"
        /\ disk' = NoEntries /\ floor' = origin /\ memory = NoEntries
    BY <1>4 DEF PurgeDisk, CacheInv
  <2>2. CacheTypeOK'
    BY <2>1, TierFacts DEF CacheInv, CacheTypeOK
  <2>3. \A k \in Keys : memory'[k] = Nothing /\ disk'[k] = Nothing
    BY <2>1 DEF NoEntries
  <2>4. EntryFresh(memory)' /\ EntryFresh(disk)'
    BY <2>3 DEF EntryFresh, Nothing
  <2>5. \A r \in Requests : LookupInv(request[r])'
    BY <2>1 DEF CacheInv, LookupInv, TokenOrdered, LockHeld, CarriesFresh, Carries
  <2> QED BY <1>1, <2>1, <2>2, <2>4, <2>5 DEF CacheInv
<1> QED BY <1>2, <1>3, <1>4

\* A generation is adopted: the token first, then memory, then disk.
LEMMA AdoptKeepsCache ==
  ASSUME CacheInv, NEW g \in Generations, Adopt(g)
  PROVE  CacheInv' /\ FreshAfterInvalidation
<1>1. UNCHANGED <<origin, memory, disk, request, purger>> /\ floor' = origin /\ g > token.generation
  BY DEF Adopt, tierVars
<1>2. FillsInv' /\ FreshAfterInvalidation
  BY <1>1, NoRequestMoves
<1>3. token \in Tokens /\ token' \in Tokens /\ token'.generation = g /\ token'.local = token.local
  BY DEF Adopt, CacheInv, CacheTypeOK, Tokens
<1>4. CacheTypeOK'
  BY <1>1, <1>3 DEF CacheInv, CacheTypeOK
<1>5. g \in Int /\ token.generation \in Int /\ token.local \in Int /\ \A k \in Keys : k[2] \in Int
  BY <1>3, CacheBounds DEF Keys, Generations, Tokens
<1>6. EntryFresh(memory)' /\ EntryFresh(disk)'
  BY <1>1, <1>3, <1>5 DEF CacheInv, EntryFresh
<1>7. \A r \in Requests : LookupInv(request[r])'
  <2> SUFFICES ASSUME NEW r \in Requests PROVE LookupInv(request[r])'
    OBVIOUS
  <2>1. LookupInv(request[r]) /\ request[r].token \in Tokens
    BY DEF CacheInv, CacheTypeOK, Lookups
  <2>2. request[r].token.generation \in Int /\ request[r].token.generation <= token.generation
    BY <2>1, CacheBounds DEF LookupInv, TokenOrdered, Tokens, Generations
  <2>3. request[r].token # token'
    BY <1>1, <1>3, <1>5, <2>2
  <2>4. TokenOrdered(request[r])'
    BY <1>1, <1>3, <1>5, <2>1, <2>2 DEF LookupInv, TokenOrdered
  <2> QED BY <1>1, <1>3, <2>1, <2>3, <2>4 DEF LookupInv, LockHeld, CarriesFresh
<1>8. (purger = "locked" => memory = NoEntries)'
  BY <1>1 DEF CacheInv, NoEntries
<1> QED BY <1>2, <1>4, <1>6, <1>7, <1>8 DEF CacheInv

\* A tier loses entries, or all of them, and nothing else changes.
LEMMA TierShrinks ==
  ASSUME CacheInv, UNCHANGED <<origin, token, request, purger, floor>>,
         memory' \in [Keys -> Int], disk' \in [Keys -> Int],
         \A k \in Keys : memory'[k] \in {memory[k], Nothing} /\ disk'[k] \in {disk[k], Nothing}
  PROVE  CacheInv' /\ FreshAfterInvalidation
<1>1. FillsInv' /\ FreshAfterInvalidation
  BY NoRequestMoves
<1>2. CacheTypeOK'
  BY DEF CacheInv, CacheTypeOK
<1>3. EntryFresh(memory)' /\ EntryFresh(disk)'
  BY DEF CacheInv, EntryFresh
<1>4. \A r \in Requests : LookupInv(request[r])'
  BY DEF CacheInv, LookupInv, TokenOrdered, LockHeld, CarriesFresh
<1>5. (purger = "locked" => memory = NoEntries)'
  <2>1. purger = "locked" => \A k \in Keys : memory'[k] = Nothing
    BY DEF CacheInv, NoEntries
  <2> QED BY <2>1 DEF NoEntries
<1> QED BY <1>1, <1>2, <1>3, <1>4, <1>5 DEF CacheInv

\* Dropping entries or rows leaves the invariant to the ones that stay.
LEMMA DropKeepsCache ==
  ASSUME CacheInv, AdoptMemory \/ AdoptDisk \/ \E k \in Keys : Evict(k)
  PROVE  CacheInv' /\ FreshAfterInvalidation
<1> USE TierFacts
<1>1. UNCHANGED <<origin, token, request, purger, floor>>
  BY DEF AdoptMemory, AdoptDisk, Evict
<1>2. memory \in [Keys -> Int] /\ disk \in [Keys -> Int] /\ Nothing \in Int
  BY DEF CacheInv, CacheTypeOK, Nothing
<1>3. \A k \in Keys : NoEntries[k] = Nothing
  BY DEF NoEntries
<1>4. CASE AdoptMemory \/ AdoptDisk
  <2>1. memory' \in {memory, NoEntries} /\ disk' \in {disk, NoEntries}
    BY <1>4 DEF AdoptMemory, AdoptDisk
  <2> QED BY <2>1, <1>1, <1>2, <1>3, TierShrinks
<1>5. ASSUME NEW k \in Keys, Evict(k) PROVE CacheInv' /\ FreshAfterInvalidation
  <2>1. memory' \in {memory, [memory EXCEPT ![k] = Nothing]} /\ disk' \in {disk, [disk EXCEPT ![k] = Nothing]}
    BY <1>5 DEF Evict
  <2> QED BY <2>1, <1>1, <1>2, TierShrinks
<1> QED BY <1>4, <1>5

\* The process restarts with a durable generation: every request is gone, and
\* the rows the disk tier kept are of the generations before or fresh.
LEMMA CrashKeepsCache ==
  ASSUME CacheInv, NEW g \in Generations, CrashCache(g)
  PROVE  CacheInv' /\ FreshAfterInvalidation
<1>1. UNCHANGED <<origin, disk, floor>> /\ memory' = NoEntries /\ purger' = "idle"
      /\ g >= token.generation /\ token' = [generation |-> g, local |-> 0]
      /\ request' = [r \in Requests |-> Quiet]
  BY DEF CrashCache
<1>2. token \in Tokens /\ token' \in Tokens /\ token'.generation = g /\ token'.local = 0
  BY <1>1 DEF CacheInv, CacheTypeOK, Tokens
<1>3. \A r \in Requests : request'[r] = Quiet
  BY <1>1
<1>4. /\ Quiet \in Lookups /\ Quiet.at = "idle" /\ Quiet.key[2] = 0
      /\ Quiet.token.generation = 0 /\ Quiet.token.local = 0
  BY CacheBounds DEF Quiet, Lookups, Steps, Keys, Generations, Tokens, Nothing
<1>5. CacheTypeOK'
  BY <1>1, <1>2, <1>4, TierFacts DEF CacheInv, CacheTypeOK
<1>6. \A k \in Keys : k[2] \in Int /\ g \in Int /\ token.generation \in Int
  BY <1>2, CacheBounds DEF Keys, Generations, Tokens
<1>7. EntryFresh(memory)' /\ EntryFresh(disk)'
  BY <1>1, <1>2, <1>6, TierFacts DEF CacheInv, EntryFresh, NoEntries
<1>8. \A r \in Requests : LookupInv(request[r])'
  BY <1>1, <1>2, <1>3, <1>4, CacheBounds
     DEF LookupInv, TokenOrdered, LockHeld, CarriesFresh, Locked, Carries, Generations
<1>9. Fills' = {}
  BY <1>3, <1>4 DEF Fills, Held
<1>10. FillsInv'
  BY <1>9, FS_EmptySet, CacheBounds DEF FillsInv
<1>11. FreshAfterInvalidation
  BY <1>3, <1>4 DEF FreshAfterInvalidation
<1> QED BY <1>1, <1>5, <1>7, <1>8, <1>10, <1>11 DEF CacheInv

\* The origin's content changes.
LEMMA OriginKeepsCache ==
  ASSUME CacheInv, OriginChanges
  PROVE  CacheInv' /\ FreshAfterInvalidation
<1>1. UNCHANGED <<token, memory, disk, request, purger, floor>> /\ origin' = origin + 1
  BY DEF OriginChanges, tierVars
<1>2. CacheTypeOK'
  BY <1>1 DEF CacheInv, CacheTypeOK
<1>3. EntryFresh(memory)' /\ EntryFresh(disk)' /\ FillsInv' /\ FreshAfterInvalidation
  BY <1>1, NoRequestMoves DEF CacheInv, EntryFresh
<1>4. \A r \in Requests : LookupInv(request[r])'
  BY <1>1 DEF CacheInv, LookupInv, TokenOrdered, LockHeld, CarriesFresh
<1>5. (purger = "locked" => memory = NoEntries)'
  BY <1>1 DEF CacheInv, NoEntries
<1> QED BY <1>2, <1>3, <1>4, <1>5 DEF CacheInv

\* Distinct keys and held permits are what coalescing promises.
LEMMA CacheInvCoalesces ==
  ASSUME CacheInv
  PROVE  CoalescedFills
<1>1. \A k \in Keys : Cardinality(Filling(k)) <= 1
  <2> SUFFICES ASSUME NEW k \in Keys PROVE Cardinality(Filling(k)) <= 1
    OBVIOUS
  <2>1. CASE Filling(k) = {}
    BY <2>1, FS_EmptySet
  <2>2. ASSUME NEW r \in Filling(k) PROVE Cardinality(Filling(k)) <= 1
    <3>1. Filling(k) = {r}
      BY DEF Filling, Fills, CacheInv, FillsInv
    <3> QED BY <3>1, FS_Singleton
  <2> QED BY <2>1, <2>2
<1> QED BY <1>1 DEF CoalescedFills, CacheInv, FillsInv

\* The cache starts empty and idle.
LEMMA CacheInvInit == CacheInit => CacheInv
<1> SUFFICES ASSUME CacheInit PROVE CacheInv
  OBVIOUS
<1>1. /\ Quiet \in Lookups /\ Quiet.at = "idle" /\ Quiet.key[2] = 0
      /\ Quiet.token.generation = 0 /\ Quiet.token.local = 0
  BY CacheBounds DEF Quiet, Lookups, Steps, Keys, Generations, Tokens, Nothing
<1>2. \A r \in Requests : request[r] = Quiet
  BY DEF CacheInit
<1>3. \A k \in Keys : memory[k] = Nothing /\ disk[k] = Nothing
  BY DEF CacheInit, NoEntries
<1>4. token \in Tokens /\ token.generation = 0 /\ token.local = 0
  BY CacheBounds DEF CacheInit, Tokens, Generations
<1>5. CacheTypeOK
  BY <1>1, <1>4 DEF CacheInit, CacheTypeOK, NoEntries, Nothing
<1>6. EntryFresh(memory) /\ EntryFresh(disk)
  BY <1>3 DEF EntryFresh
<1>7. \A r \in Requests : LookupInv(request[r])
  BY <1>1, <1>2, <1>4 DEF LookupInv, TokenOrdered, LockHeld, CarriesFresh, Locked, Carries
<1>8. Fills = {}
  BY <1>1, <1>2 DEF Fills, Held
<1>9. FillsInv
  BY <1>8, FS_EmptySet, CacheBounds DEF FillsInv
<1>10. purger # "locked"
  BY DEF CacheInit
<1> QED BY <1>5, <1>6, <1>7, <1>9, <1>10 DEF CacheInv

\* The response cache answers no request with content captured before the last
\* completed invalidation and fills a key once at a time, within the permits.
THEOREM CacheCoherence == CacheSpec => CacheCoherent
<1>1. CacheInv /\ [CacheNext]_cacheVars => CacheInv' /\ FreshAfterInvalidation
  <2> SUFFICES ASSUME CacheInv, [CacheNext]_cacheVars PROVE CacheInv' /\ FreshAfterInvalidation
    OBVIOUS
  <2>1. CASE \E r \in Requests : CacheRequest(r)
    BY <2>1, RequestStepKeepsCache
  <2>2. CASE PurgeRequested \/ PurgeLocked \/ PurgeDisk \/ PurgeFails
    BY <2>2, PurgeKeepsCache
  <2>3. CASE \E g \in Generations : Adopt(g) \/ CrashCache(g)
    BY <2>3, AdoptKeepsCache, CrashKeepsCache
  <2>4. CASE AdoptMemory \/ AdoptDisk \/ \E k \in Keys : Evict(k)
    BY <2>4, DropKeepsCache
  <2>5. CASE OriginChanges
    BY <2>5, OriginKeepsCache
  <2>6. CASE UNCHANGED cacheVars
    BY <2>6, TierShrinks DEF cacheVars, CacheInv, CacheTypeOK
  <2> QED BY <2>1, <2>2, <2>3, <2>4, <2>5, <2>6 DEF CacheNext
<1>2. CacheInv' => CoalescedFills'
  BY CacheInvCoalesces, PTL
<1>3. CacheInv /\ [CacheNext]_cacheVars => [CacheStep]_cacheVars
  BY <1>1, <1>2 DEF CacheStep
<1> QED BY <1>1, <1>3, CacheInvInit, PTL DEF CacheSpec, CacheCoherent

-----------------------------------------------------------------------------
(* Remote keys *)

AskSteps == {"idle", "asked", "racing", "rechecking", "fetching", "fetched", "verifying", "admitted"}
Asks == [at : AskSteps, now : Int, started : Int, version : Int]
KeySets == [version : Int, refreshAfter : Int, expiresAt : Int, nextRefresh : Int, failed : BOOLEAN]

KeysTypeOK ==
  /\ keyNow \in 0..KeyClock /\ issuer \in 0..MaxKey /\ withdrawn \in [1..MaxKey -> 0..Never]
  /\ keys \in KeySets /\ fetching \in BOOLEAN /\ ask \in [Askers -> Asks] /\ lastFetch \in Int
  /\ sessions \subseteq Verifiers

\* The published version is not withdrawn.
IssuerLive == issuer > 0 => withdrawn[issuer] = Never

\* A set expires a lifetime after its fetch began, which its version's
\* withdrawal did not precede.
KeySetBounded ==
  /\ keys.version \in -1..MaxKey
  /\ keys.version > 0 => keys.expiresAt <= withdrawn[keys.version] + KeyTime
  /\ keys.expiresAt <= keyNow + KeyTime

\* The cooldown reserved by the latest fetch is still in force.
CooldownKept == lastFetch <= keyNow /\ keys.nextRefresh >= lastFetch + Cooldown

FetchSteps == {"rechecking", "fetching", "fetched"}
Fetchers == {a \in Askers : ask[a].at \in FetchSteps}
FlagOwned ==
  /\ \A a, b \in Fetchers : a = b
  /\ fetching <=> Fetchers # {}

\* What a caller holds: instants of the past, a fetched version that was
\* published when the fetch began, a key of the set, an admission in time.
AskInv(q) ==
  /\ q.now <= keyNow /\ q.started <= keyNow
  /\ q.at = "fetched" =>
       /\ q.version \in {FetchFailed} \cup 0..MaxKey
       /\ q.version > 0 => q.started <= withdrawn[q.version]
  /\ q.at \in {"verifying", "admitted"} => q.version \in 1..MaxKey
  /\ q.at = "admitted" => q.now < withdrawn[q.version] + KeyTime

\* A session belongs to an admitted request, and a monitor watches it.
SessionsInv == SessionsWatched /\ \A v \in sessions : ask[v].at = "admitted"

KeysInv ==
  /\ KeysTypeOK /\ IssuerLive /\ KeySetBounded /\ CooldownKept /\ FlagOwned /\ SessionsInv
  /\ \A a \in Askers : AskInv(ask[a])

\* A step may replace the call of a by q and leave the flag at `flag`: the flag
\* changes hands with the call, and a fetch begins after the cooldown.
AskFits(a, q, flag) ==
  /\ q \in Asks /\ AskInv(q) /\ flag \in BOOLEAN
  /\ q.at = "fetching" => keyNow >= lastFetch + Cooldown
  /\ \/ (q.at \in FetchSteps <=> ask[a].at \in FetchSteps) /\ flag = fetching
     \/ q.at \in FetchSteps /\ fetching = FALSE /\ flag = TRUE
     \/ q.at \notin FetchSteps /\ ask[a].at \in FetchSteps /\ flag = FALSE

\* The facts about the constants that the arithmetic needs.
LEMMA KeyConstants ==
  /\ MaxKey \in Int /\ MaxKey >= 1 /\ KeyTime \in Int /\ KeyTime >= 1 /\ Cooldown \in Int
  /\ Cooldown >= 1 /\ KeyClock \in Int /\ Never = KeyClock + 1 /\ KeyTime \div 2 \in Int
  /\ Monitor \in Askers /\ Verifiers \subseteq Askers
BY KeyBounds DEF Never, Askers

\* What the state's types say about one caller.
LEMMA AskFacts ==
  ASSUME KeysInv, NEW a \in Askers
  PROVE  /\ ask[a] \in Asks /\ ask[a].now \in Int /\ ask[a].started \in Int /\ ask[a].version \in Int
         /\ ask[a].at \in AskSteps /\ AskInv(ask[a])
<1>1. ask[a] \in Asks /\ AskInv(ask[a])
  BY DEF KeysInv, KeysTypeOK
<1> QED BY <1>1 DEF Asks

\* The typing of the state, read off the invariant.
LEMMA KeyFacts ==
  ASSUME KeysInv
  PROVE  /\ keyNow \in Int /\ keyNow >= 0 /\ keyNow <= KeyClock /\ lastFetch \in Int
         /\ issuer \in Int /\ keys.version \in Int /\ keys.refreshAfter \in Int /\ keys.expiresAt \in Int
         /\ keys.nextRefresh \in Int /\ keys.version \in -1..MaxKey
         /\ \A w \in 1..MaxKey : withdrawn[w] \in Int
<1>1. keyNow \in 0..KeyClock /\ issuer \in 0..MaxKey /\ withdrawn \in [1..MaxKey -> 0..Never]
      /\ keys \in KeySets /\ lastFetch \in Int /\ keys.version \in -1..MaxKey
  BY DEF KeysInv, KeysTypeOK, KeySetBounded
<1> QED BY <1>1, KeyConstants DEF KeySets

\* Replacing one call keeps every call in order, the flag with its one owner,
\* and the cooldown between fetches.
LEMMA AskReplaced ==
  ASSUME KeysInv, NEW a \in Askers, NEW q, AskFits(a, q, fetching'),
         ask' = [ask EXCEPT ![a] = q], UNCHANGED <<keyNow, withdrawn>>
  PROVE  /\ ask' \in [Askers -> Asks] /\ fetching' \in BOOLEAN
         /\ FlagOwned' /\ FetchesSpaced
         /\ \A b \in Askers : AskInv(ask[b])'
<1>1. ask'[a] = q /\ \A b \in Askers : b # a => ask'[b] = ask[b]
  BY DEF KeysInv, KeysTypeOK
<1>2. ask' \in [Askers -> Asks] /\ fetching' \in BOOLEAN
  BY DEF KeysInv, KeysTypeOK, AskFits
<1>3. \A b \in Askers : AskInv(ask[b])'
  <2> SUFFICES ASSUME NEW b \in Askers PROVE AskInv(ask[b])'
    OBVIOUS
  <2>1. ask'[b] \in {q, ask[b]} /\ AskInv(q) /\ AskInv(ask[b])
    BY <1>1 DEF AskFits, KeysInv
  <2> QED BY <2>1 DEF AskInv
<1>4. FetchesSpaced
  BY <1>1 DEF FetchesSpaced, AskFits
<1>5. FlagOwned'
  <2>1. (\A b, c \in Fetchers : b = c) /\ (fetching <=> Fetchers # {}) /\ fetching \in BOOLEAN
    BY DEF KeysInv, KeysTypeOK, FlagOwned
  <2>2. CASE (q.at \in FetchSteps <=> ask[a].at \in FetchSteps) /\ fetching' = fetching
    <3>1. Fetchers' = Fetchers
      BY <1>1, <2>2 DEF Fetchers
    <3> QED BY <2>1, <2>2, <3>1 DEF FlagOwned
  <2>3. CASE q.at \in FetchSteps /\ fetching = FALSE /\ fetching' = TRUE
    <3>1. Fetchers = {}
      BY <2>1, <2>3
    <3>2. Fetchers' = {a}
      BY <1>1, <2>3, <3>1 DEF Fetchers
    <3> QED BY <2>3, <3>2 DEF FlagOwned
  <2>4. CASE q.at \notin FetchSteps /\ ask[a].at \in FetchSteps /\ fetching' = FALSE
    <3>1. Fetchers = {a}
      BY <2>1, <2>4 DEF Fetchers
    <3>2. Fetchers' = {}
      BY <1>1, <2>4, <3>1 DEF Fetchers
    <3> QED BY <2>4, <3>2 DEF FlagOwned
  <2> QED BY <2>2, <2>3, <2>4 DEF AskFits
<1> QED BY <1>2, <1>3, <1>4, <1>5

\* A caller that leaves, and one that is answered with a key of the set.
LEMMA RefuseFits ==
  ASSUME KeysInv, NEW a \in Askers, NEW flag \in BOOLEAN,
         \/ ask[a].at \notin FetchSteps /\ flag = fetching
         \/ ask[a].at \in FetchSteps /\ flag = FALSE
  PROVE  AskFits(a, NotAsking, flag)
<1>1. NotAsking \in Asks /\ NotAsking.at = "idle" /\ NotAsking.now = 0 /\ NotAsking.started = 0
  BY DEF NotAsking, Asks, AskSteps, NoKeySet
<1>2. AskInv(NotAsking)
  BY <1>1, KeyFacts DEF AskInv
<1> QED BY <1>1, <1>2 DEF AskFits, FetchSteps

\* The call that goes on to verify with version v.
Verifying(v) == [NotAsking EXCEPT !.at = "verifying", !.version = v]

\* An asker that goes on to verify with the set it looked at.
LEMMA VerifyingFits ==
  ASSUME KeysInv, NEW a \in Askers, NEW v \in 1..MaxKey, NEW flag \in BOOLEAN,
         \/ ask[a].at \notin FetchSteps /\ flag = fetching
         \/ ask[a].at \in FetchSteps /\ flag = FALSE
  PROVE  AskFits(a, Verifying(v), flag)
<1>0. NotAsking \in Asks /\ NotAsking.now = 0 /\ NotAsking.started = 0
  BY DEF NotAsking, Asks, AskSteps, NoKeySet
<1>1. /\ Verifying(v) \in Asks /\ Verifying(v).at = "verifying" /\ Verifying(v).version = v
      /\ Verifying(v).now = 0 /\ Verifying(v).started = 0
  <2>1. PICK p \in Asks : p = NotAsking
    BY <1>0
  <2>2. LET q == [p EXCEPT !.at = "verifying", !.version = v]
        IN  q \in Asks /\ q.at = "verifying" /\ q.version = v /\ q.now = p.now /\ q.started = p.started
    <3>1. v \in Int /\ "verifying" \in AskSteps
      BY KeyConstants DEF AskSteps
    <3> QED BY <3>1 DEF Asks
  <2> QED BY <1>0, <2>1, <2>2 DEF Verifying
<1>2. AskInv(Verifying(v))
  BY <1>1, KeyFacts DEF AskInv
<1> QED BY <1>1, <1>2 DEF AskFits, FetchSteps

\* key() returns with the cached key or with none.
LEMMA ReturnFits ==
  ASSUME KeysInv, NEW a \in Askers, fetching' \in BOOLEAN,
         \/ ask[a].at \notin FetchSteps /\ fetching' = fetching
         \/ ask[a].at \in FetchSteps /\ fetching' = FALSE,
         ask' = Refuse(a) \/ (keys.version > 0 /\ ask' = Answer(a))
  PROVE  \E q \in Asks : AskFits(a, q, fetching') /\ ask' = [ask EXCEPT ![a] = q]
<1>1. CASE ask' = Refuse(a)
  <2>1. AskFits(a, NotAsking, fetching')
    BY RefuseFits
  <2> QED BY <1>1, <2>1 DEF Refuse, AskFits
<1>2. CASE keys.version > 0 /\ ask' = Answer(a)
  <2>1. keys.version \in 1..MaxKey
    BY <1>2, KeyFacts, KeyConstants
  <2>2. ask' = [ask EXCEPT ![a] = IF a = Monitor THEN NotAsking ELSE Verifying(keys.version)]
    BY <1>2 DEF Answer, Verifying
  <2>3. AskFits(a, NotAsking, fetching') /\ AskFits(a, Verifying(keys.version), fetching')
    BY <2>1, RefuseFits, VerifyingFits
  <2> QED BY <2>2, <2>3 DEF AskFits
<1> QED BY <1>1, <1>2

\* Sessions stay with their requests when another call moves.
LEMMA SessionsStay ==
  ASSUME KeysInv, NEW a \in Askers, NEW q, ask[a].at # "admitted", ask' = [ask EXCEPT ![a] = q],
         sessions' = sessions, monitor' = monitor \/ monitor' # "off"
  PROVE  sessions' \subseteq Verifiers /\ SessionsInv'
<1>1. sessions \subseteq Verifiers /\ Verifiers \subseteq Askers /\ SessionsInv
      /\ ask \in [Askers -> Asks]
  BY KeyConstants DEF KeysInv, KeysTypeOK
<1>2. \A v \in sessions : ask'[v] = ask[v]
  BY <1>1 DEF SessionsInv
<1> QED BY <1>1, <1>2 DEF SessionsInv, SessionsWatched

\* A step of one call that leaves the provider, the set and the clock alone.
LEMMA CallKeeps ==
  ASSUME KeysInv, NEW a \in Askers, NEW q, AskFits(a, q, fetching'), ask' = [ask EXCEPT ![a] = q],
         UNCHANGED <<keyNow, issuer, withdrawn, keys, lastFetch>>,
         sessions' \subseteq Verifiers, SessionsInv'
  PROVE  KeysInv' /\ FetchesSpaced
<1>1. /\ ask' \in [Askers -> Asks] /\ fetching' \in BOOLEAN /\ FlagOwned' /\ FetchesSpaced
      /\ \A b \in Askers : AskInv(ask[b])'
  BY AskReplaced
<1>2. KeysTypeOK'
  BY <1>1 DEF KeysInv, KeysTypeOK
<1>3. IssuerLive' /\ KeySetBounded' /\ CooldownKept'
  BY DEF KeysInv, IssuerLive, KeySetBounded, CooldownKept
<1> QED BY <1>1, <1>2, <1>3 DEF KeysInv

\* The same when it leaves the sessions alone as well.
LEMMA CallStays ==
  ASSUME KeysInv, NEW a \in Askers, NEW q, AskFits(a, q, fetching'), ask' = [ask EXCEPT ![a] = q],
         ask[a].at # "admitted",
         UNCHANGED <<keyNow, issuer, withdrawn, keys, lastFetch, sessions>>,
         monitor' = monitor \/ monitor' # "off"
  PROVE  KeysInv' /\ FetchesSpaced
<1>1. sessions' \subseteq Verifiers /\ SessionsInv'
  BY SessionsStay
<1> QED BY <1>1, CallKeeps

\* A token is presented: its asker starts with the present instant.
LEMMA PresentKeeps ==
  ASSUME KeysInv, NEW v \in Verifiers, Present(v)
  PROVE  KeysInv' /\ FetchesSpaced
<1> DEFINE q == [NotAsking EXCEPT !.at = "asked", !.now = keyNow]
<1>0. v \in Askers
  BY KeyConstants
<1>1. NotAsking \in Asks /\ NotAsking.started = 0
  BY DEF NotAsking, Asks, AskSteps, NoKeySet
<1>2. q \in Asks /\ q.at = "asked" /\ q.now = keyNow /\ q.started = 0
  <2>1. PICK p \in Asks : p = NotAsking
    BY <1>1
  <2>2. LET u == [p EXCEPT !.at = "asked", !.now = keyNow]
        IN  u \in Asks /\ u.at = "asked" /\ u.now = keyNow /\ u.started = p.started
    BY KeyFacts DEF Asks, AskSteps
  <2> QED BY <1>1, <2>1, <2>2
<1>3. ask' = [ask EXCEPT ![v] = q] /\ UNCHANGED <<keyNow, issuer, withdrawn, keys, fetching, lastFetch, sessions, monitor>>
      /\ ask[v].at = "idle"
  BY DEF Present
<1> HIDE DEF q
<1>4. AskInv(q)
  BY <1>2, KeyFacts DEF AskInv
<1>5. AskFits(v, q, fetching')
  BY <1>2, <1>3, <1>4 DEF AskFits, FetchSteps, KeysInv, KeysTypeOK
<1> QED BY <1>0, <1>3, <1>5, CallStays

\* The monitor asks like a request does, on behalf of the sessions.
LEMMA MonitorAsksKeeps ==
  ASSUME KeysInv, MonitorAsks
  PROVE  KeysInv' /\ FetchesSpaced
<1> DEFINE q == [NotAsking EXCEPT !.at = "asked", !.now = keyNow]
<1>1. NotAsking \in Asks /\ NotAsking.started = 0
  BY DEF NotAsking, Asks, AskSteps, NoKeySet
<1>2. q \in Asks /\ q.at = "asked" /\ q.now = keyNow /\ q.started = 0
  <2>1. PICK p \in Asks : p = NotAsking
    BY <1>1
  <2>2. LET u == [p EXCEPT !.at = "asked", !.now = keyNow]
        IN  u \in Asks /\ u.at = "asked" /\ u.now = keyNow /\ u.started = p.started
    BY KeyFacts DEF Asks, AskSteps
  <2> QED BY <1>1, <2>1, <2>2
<1>3. ask' = [ask EXCEPT ![Monitor] = q] /\ UNCHANGED <<keyNow, issuer, withdrawn, keys, fetching, lastFetch, sessions>>
      /\ ask[Monitor].at = "idle" /\ monitor' = "asking"
  BY DEF MonitorAsks
<1> HIDE DEF q
<1>4. AskInv(q)
  BY <1>2, KeyFacts DEF AskInv
<1>5. AskFits(Monitor, q, fetching')
  BY <1>2, <1>3, <1>4 DEF AskFits, FetchSteps, KeysInv, KeysTypeOK
<1> QED BY <1>3, <1>5, CallStays, KeyConstants

\* A lookup either finds a usable set or goes on to race for the flag.
LEMMA LookupKeeps ==
  ASSUME KeysInv, NEW a \in Askers, LookupKey(a)
  PROVE  KeysInv' /\ FetchesSpaced
<1>1. UNCHANGED <<keyNow, issuer, withdrawn, keys, fetching, lastFetch, sessions, monitor>>
      /\ ask[a].at = "asked" /\ fetching \in BOOLEAN
  BY DEF LookupKey, KeysInv, KeysTypeOK
<1>3. CASE ask' = Refuse(a) \/ (keys.version > 0 /\ ask' = Answer(a))
  <2>1. PICK q \in Asks : AskFits(a, q, fetching') /\ ask' = [ask EXCEPT ![a] = q]
    BY <1>1, <1>3, ReturnFits DEF FetchSteps
  <2> QED BY <1>1, <2>1, CallStays
<1>4. CASE ask' = [ask EXCEPT ![a].at = "racing", ![a].now = 0]
  <2> DEFINE q == [ask[a] EXCEPT !.at = "racing", !.now = 0]
  <2>1. q \in Asks /\ q.at = "racing" /\ q.now = 0 /\ q.started = ask[a].started
    <3>1. PICK p \in Asks : p = ask[a]
      BY AskFacts
    <3>2. LET u == [p EXCEPT !.at = "racing", !.now = 0]
          IN  u \in Asks /\ u.at = "racing" /\ u.now = 0 /\ u.started = p.started
      <4>1. PICK s \in AskSteps, n \in Int : s = "racing" /\ n = 0
        BY DEF AskSteps
      <4>2. LET u == [p EXCEPT !.at = s, !.now = n]
            IN  u \in Asks /\ u.at = s /\ u.now = n /\ u.started = p.started
        BY DEF Asks
      <4> QED BY <4>1, <4>2
    <3> QED BY <3>1, <3>2
  <2>2. ask' = [ask EXCEPT ![a] = q]
    BY <1>4 DEF KeysInv, KeysTypeOK
  <2> HIDE DEF q
  <2>3. AskInv(q)
    BY <2>1, KeyFacts, AskFacts DEF AskInv
  <2>4. AskFits(a, q, fetching')
    BY <1>1, <2>1, <2>3 DEF AskFits, FetchSteps
  <2> QED BY <1>1, <2>2, <2>4, CallStays
<1> QED BY <1>3, <1>4 DEF LookupKey, FreshAt, CachedAt

\* Only an asker that found the flag down raises it.
LEMMA RaceKeeps ==
  ASSUME KeysInv, NEW a \in Askers, RaceFetch(a)
  PROVE  KeysInv' /\ FetchesSpaced
<1>1. UNCHANGED <<keyNow, issuer, withdrawn, keys, lastFetch, sessions, monitor>>
      /\ ask[a].at = "racing" /\ fetching \in BOOLEAN
  BY DEF RaceFetch, KeysInv, KeysTypeOK
<1>3. CASE fetching
  <2>1. fetching' = fetching /\ (ask' = Refuse(a) \/ (keys.version > 0 /\ ask' = Answer(a)))
    BY <1>3 DEF RaceFetch, FlagTaken, CachedAt
  <2>2. PICK q \in Asks : AskFits(a, q, fetching') /\ ask' = [ask EXCEPT ![a] = q]
    BY <1>1, <2>1, ReturnFits DEF FetchSteps
  <2> QED BY <1>1, <2>2, CallStays
<1>4. CASE ~fetching
  <2> DEFINE q == [ask[a] EXCEPT !.at = "rechecking"]
  <2>1. /\ q \in Asks /\ q.at = "rechecking" /\ q.now = ask[a].now /\ q.started = ask[a].started
        /\ q.version = ask[a].version
    <3>1. PICK p \in Asks : p = ask[a]
      BY AskFacts
    <3>2. LET u == [p EXCEPT !.at = "rechecking"]
          IN  u \in Asks /\ u.at = "rechecking" /\ u.now = p.now /\ u.started = p.started /\ u.version = p.version
      BY DEF Asks, AskSteps
    <3> QED BY <3>1, <3>2
  <2>2. ask' = [ask EXCEPT ![a] = q] /\ fetching' = TRUE
    BY <1>4 DEF RaceFetch, FlagTaken
  <2> HIDE DEF q
  <2>3. AskInv(q)
    BY <2>1, AskFacts DEF AskInv
  <2>4. AskFits(a, q, TRUE)
    BY <1>1, <1>4, <2>1, <2>3 DEF AskFits, FetchSteps
  <2> QED BY <1>1, <2>2, <2>4, CallStays
<1> QED BY <1>3, <1>4

\* The caller that holds the flag leaves, or starts its fetch after the cooldown.
LEMMA BeginKeeps ==
  ASSUME KeysInv, NEW a \in Askers, BeginFetch(a)
  PROVE  KeysInv' /\ FetchesSpaced
<1>1. UNCHANGED <<keyNow, issuer, withdrawn, sessions, monitor>>
      /\ ask[a].at = "rechecking" /\ fetching \in BOOLEAN
  BY DEF BeginFetch, KeysInv, KeysTypeOK
<1>3. CASE FreshAt(keyNow) \/ CoolingAt(keyNow)
  <2>1. UNCHANGED <<keys, lastFetch>> /\ fetching' = FALSE
        /\ (ask' = Refuse(a) \/ (keys.version > 0 /\ ask' = Answer(a)))
    BY <1>3 DEF BeginFetch, Recheck, FreshAt, CachedAt
  <2>2. PICK q \in Asks : AskFits(a, q, fetching') /\ ask' = [ask EXCEPT ![a] = q]
    BY <1>1, <2>1, ReturnFits DEF FetchSteps
  <2> QED BY <1>1, <2>1, <2>2, CallStays
<1>4. CASE ~(FreshAt(keyNow) \/ CoolingAt(keyNow))
  <2> DEFINE q == [ask[a] EXCEPT !.at = "fetching", !.started = keyNow]
  <2>1. StartFetch(a) /\ keyNow >= keys.nextRefresh
    BY <1>4, KeyFacts DEF BeginFetch, Recheck, CoolingAt
  <2>2. /\ q \in Asks /\ q.at = "fetching" /\ q.now = ask[a].now /\ q.started = keyNow
    <3>1. PICK p \in Asks : p = ask[a]
      BY AskFacts
    <3>2. LET u == [p EXCEPT !.at = "fetching", !.started = keyNow]
          IN  u \in Asks /\ u.at = "fetching" /\ u.now = p.now /\ u.started = keyNow
      BY KeyFacts DEF Asks, AskSteps
    <3> QED BY <3>1, <3>2
  <2>3. ask' = [ask EXCEPT ![a] = q] /\ fetching' = fetching /\ lastFetch' = keyNow
    BY <2>1 DEF StartFetch, KeysInv, KeysTypeOK
  <2> HIDE DEF q
  <2>4. AskInv(q)
    BY <2>2, KeyFacts, AskFacts DEF AskInv
  <2>5. keyNow >= lastFetch + Cooldown
    BY <2>1, KeyFacts, KeyConstants DEF KeysInv, CooldownKept
  <2>6. AskFits(a, q, fetching')
    BY <1>1, <2>2, <2>3, <2>4, <2>5 DEF AskFits, FetchSteps
  <2>7. /\ ask' \in [Askers -> Asks] /\ fetching' \in BOOLEAN /\ FlagOwned' /\ FetchesSpaced
        /\ \A c \in Askers : AskInv(ask[c])'
    BY <1>1, <2>3, <2>6, AskReplaced
  <2>8. /\ keys' \in KeySets /\ keys'.version = keys.version /\ keys'.expiresAt = keys.expiresAt
        /\ keys'.nextRefresh = keyNow + Cooldown
    <3>1. PICK k \in KeySets : k = keys
      BY DEF KeysInv, KeysTypeOK
    <3>2. PICK n \in Int : n = keyNow + Cooldown
      BY KeyFacts, KeyConstants
    <3>3. LET u == [k EXCEPT !.nextRefresh = n, !.failed = TRUE]
          IN  u \in KeySets /\ u.version = k.version /\ u.expiresAt = k.expiresAt /\ u.nextRefresh = n
      BY DEF KeySets
    <3> QED BY <2>1, <3>1, <3>2, <3>3 DEF StartFetch
  <2>9. KeysTypeOK'
    BY <1>1, <2>3, <2>7, <2>8, KeyFacts DEF KeysInv, KeysTypeOK
  <2>10. IssuerLive' /\ KeySetBounded' /\ CooldownKept'
    BY <1>1, <2>3, <2>8, KeyFacts, KeyConstants DEF KeysInv, IssuerLive, KeySetBounded, CooldownKept
  <2>11. SessionsInv'
    BY <1>1, <2>3, SessionsStay
  <2> QED BY <2>7, <2>9, <2>10, <2>11 DEF KeysInv
<1> QED BY <1>3, <1>4

\* The provider's version is not withdrawn when it is read.
LEMMA ReadKeeps ==
  ASSUME KeysInv, NEW a \in Askers, ReadIssuer(a)
  PROVE  KeysInv' /\ FetchesSpaced
<1>1. UNCHANGED <<keyNow, issuer, withdrawn, keys, fetching, lastFetch, sessions, monitor>>
      /\ ask[a].at = "fetching" /\ fetching \in BOOLEAN
  BY DEF ReadIssuer, KeysInv, KeysTypeOK
<1>2. PICK n \in {issuer, FetchFailed} : ask' = [ask EXCEPT ![a].at = "fetched", ![a].version = n]
  BY DEF ReadIssuer
<1>3. n \in Int /\ n \in {FetchFailed} \cup 0..MaxKey /\ (n > 0 => n = issuer)
  BY KeyFacts DEF FetchFailed, KeysInv, KeysTypeOK
<1> DEFINE q == [ask[a] EXCEPT !.at = "fetched", !.version = n]
<1>4. q \in Asks /\ q.at = "fetched" /\ q.version = n /\ q.now = ask[a].now /\ q.started = ask[a].started
  <2>1. PICK p \in Asks : p = ask[a]
    BY AskFacts
  <2>2. LET u == [p EXCEPT !.at = "fetched", !.version = n]
        IN  u \in Asks /\ u.at = "fetched" /\ u.version = n /\ u.now = p.now /\ u.started = p.started
    BY <1>3 DEF Asks, AskSteps
  <2> QED BY <2>1, <2>2
<1>5. ask' = [ask EXCEPT ![a] = q]
  BY <1>2 DEF KeysInv, KeysTypeOK
<1> HIDE DEF q
<1>6. n > 0 => ask[a].started <= withdrawn[n]
  <2>1. n > 0 => withdrawn[n] = KeyClock + 1
    BY <1>3, KeyConstants DEF KeysInv, IssuerLive
  <2>2. ask[a].started <= keyNow
    BY AskFacts DEF AskInv
  <2> QED BY <2>1, <2>2, KeyFacts, AskFacts, KeyConstants
<1>7. AskInv(q)
  BY <1>3, <1>4, <1>6, AskFacts DEF AskInv
<1>8. AskFits(a, q, fetching')
  BY <1>1, <1>4, <1>7 DEF AskFits, FetchSteps
<1> QED BY <1>1, <1>5, <1>8, CallStays

\* A request that goes away lowers the flag if it was the one that raised it.
LEMMA CancelKeeps ==
  ASSUME KeysInv, NEW v \in Verifiers, CancelFetch(v) \/ VerifyFails(v)
  PROVE  KeysInv' /\ FetchesSpaced
<1>1. UNCHANGED <<keyNow, issuer, withdrawn, keys, lastFetch, sessions, monitor>> /\ ask' = Refuse(v)
      /\ fetching \in BOOLEAN /\ v \in Askers /\ ask[v].at # "admitted"
      /\ (\/ ask[v].at \in FetchSteps /\ fetching' = FALSE
          \/ ask[v].at \notin FetchSteps /\ fetching' = fetching)
  BY KeyConstants DEF CancelFetch, VerifyFails, KeysInv, KeysTypeOK, FetchSteps
<1>2. PICK q \in Asks : AskFits(v, q, fetching') /\ ask' = [ask EXCEPT ![v] = q]
  BY <1>1, ReturnFits
<1> QED BY <1>1, <1>2, CallStays

\* A published set is trusted for a lifetime from the start of its fetch.
LEMMA PublishKeeps ==
  ASSUME KeysInv, NEW a \in Askers, PublishKeys(a)
  PROVE  KeysInv' /\ FetchesSpaced
<1> DEFINE got == ask[a].version
<1>1. UNCHANGED <<keyNow, issuer, withdrawn, lastFetch, sessions, monitor>>
      /\ ask[a].at = "fetched" /\ fetching' = FALSE
  BY DEF PublishKeys
<1>3. keys \in KeySets /\ keyNow + Cooldown \in Int
  BY KeyFacts, KeyConstants DEF KeysInv, KeysTypeOK
<1>4. \E q \in Asks : AskFits(a, q, fetching') /\ ask' = [ask EXCEPT ![a] = q]
  <2>1. CASE got # FetchFailed /\ keyNow < Lifetime(a) + KeyTime
    <3>1. ask' = [ask EXCEPT ![a] = IF a = Monitor \/ got <= 0 THEN NotAsking ELSE Verifying(got)]
      BY <2>1 DEF PublishKeys, Verifying
    <3>2. got > 0 => got \in 1..MaxKey
      BY <1>1, <2>1, AskFacts, KeyConstants DEF AskInv
    <3>3. AskFits(a, NotAsking, fetching') /\ (got > 0 => AskFits(a, Verifying(got), fetching'))
      BY <1>1, <3>2, RefuseFits, VerifyingFits DEF FetchSteps
    <3>4. got \in Int
      BY AskFacts
    <3>5. CASE a = Monitor \/ got <= 0
      <4>1. ask' = [ask EXCEPT ![a] = NotAsking]
        BY <3>1, <3>5
      <4> QED BY <4>1, <3>3 DEF AskFits
    <3>6. CASE ~(a = Monitor \/ got <= 0)
      <4>1. ask' = [ask EXCEPT ![a] = Verifying(got)] /\ got > 0
        BY <3>1, <3>4, <3>6
      <4> QED BY <4>1, <3>3 DEF AskFits
    <3> QED BY <3>5, <3>6
  <2>2. CASE ~(got # FetchFailed /\ keyNow < Lifetime(a) + KeyTime)
    <3>1. ask' = Refuse(a) \/ (keys.version > 0 /\ ask' = Answer(a))
      BY <2>2 DEF PublishKeys, CachedAt
    <3> QED BY <1>1, <3>1, ReturnFits DEF FetchSteps
  <2> QED BY <2>1, <2>2
<1>2. SessionsInv' /\ sessions' \subseteq Verifiers
  BY <1>1, <1>4, SessionsStay
<1>5. /\ ask' \in [Askers -> Asks] /\ fetching' \in BOOLEAN /\ FlagOwned' /\ FetchesSpaced
      /\ \A c \in Askers : AskInv(ask[c])'
  BY <1>1, <1>4, AskReplaced
<1>6. keys' \in KeySets /\ KeySetBounded' /\ keys'.nextRefresh = keyNow + Cooldown
  <2>1. CASE got # FetchFailed /\ keyNow < Lifetime(a) + KeyTime
    <3>1. /\ keys'.version = got /\ keys'.expiresAt = ask[a].started + KeyTime
          /\ keys'.nextRefresh = keyNow + Cooldown /\ keys' \in KeySets
      <4>1. keys' = [version |-> got, refreshAfter |-> ask[a].started + KeyTime \div 2,
                     expiresAt |-> ask[a].started + KeyTime, nextRefresh |-> keyNow + Cooldown,
                     failed |-> FALSE]
        BY <2>1 DEF PublishKeys, Lifetime
      <4>2. got \in Int /\ ask[a].started + KeyTime \div 2 \in Int /\ ask[a].started + KeyTime \in Int
        BY AskFacts, KeyConstants
      <4> QED BY <4>1, <4>2, <1>3 DEF KeySets
    <3>2. got \in 0..MaxKey /\ (got > 0 => ask[a].started <= withdrawn[got]) /\ ask[a].started <= keyNow
      BY <1>1, <2>1, AskFacts DEF AskInv
    <3> QED BY <1>1, <3>1, <3>2, AskFacts, KeyFacts, KeyConstants DEF KeySetBounded
  <2>2. CASE ~(got # FetchFailed /\ keyNow < Lifetime(a) + KeyTime)
    <3>1. PICK k \in KeySets : k = keys
      BY <1>3
    <3>2. PICK n \in Int : n = keyNow + Cooldown
      BY <1>3
    <3>3. LET u == [k EXCEPT !.nextRefresh = n, !.failed = TRUE]
          IN  u \in KeySets /\ u.version = k.version /\ u.expiresAt = k.expiresAt /\ u.nextRefresh = n
      BY DEF KeySets
    <3>4. keys' = [keys EXCEPT !.nextRefresh = keyNow + Cooldown, !.failed = TRUE]
      BY <2>2 DEF PublishKeys
    <3>5. keys' \in KeySets /\ keys'.version = keys.version /\ keys'.expiresAt = keys.expiresAt
          /\ keys'.nextRefresh = keyNow + Cooldown
      BY <3>1, <3>2, <3>3, <3>4
    <3> QED BY <1>1, <3>5 DEF KeysInv, KeySetBounded
  <2> QED BY <2>1, <2>2
<1>7. KeysTypeOK'
  BY <1>1, <1>2, <1>5, <1>6 DEF KeysInv, KeysTypeOK
<1>8. IssuerLive' /\ CooldownKept'
  BY <1>1, <1>6, KeyFacts, KeyConstants DEF KeysInv, IssuerLive, CooldownKept
<1> QED BY <1>2, <1>5, <1>6, <1>7, <1>8 DEF KeysInv

\* The fence after verification: the key is still the set's and the set is alive.
LEMMA VerifyKeeps ==
  ASSUME KeysInv, NEW v \in Verifiers, Verify(v)
  PROVE  KeysInv' /\ FetchesSpaced
<1>1. UNCHANGED <<keyNow, issuer, withdrawn, keys, fetching, lastFetch>>
      /\ ask[v].at = "verifying" /\ v \in Askers /\ fetching \in BOOLEAN
  BY KeyConstants DEF Verify, KeysInv, KeysTypeOK
<1>2. CASE IsCurrent(v)
  <2> DEFINE q == [ask[v] EXCEPT !.at = "admitted", !.now = keyNow]
  <2>1. q \in Asks /\ q.at = "admitted" /\ q.now = keyNow /\ q.version = ask[v].version
        /\ q.started = ask[v].started
    <3>1. PICK p \in Asks : p = ask[v]
      BY <1>1, AskFacts
    <3>2. LET u == [p EXCEPT !.at = "admitted", !.now = keyNow]
          IN  u \in Asks /\ u.at = "admitted" /\ u.now = keyNow /\ u.version = p.version /\ u.started = p.started
      BY KeyFacts DEF Asks, AskSteps
    <3> QED BY <3>1, <3>2
  <2>2. ask' = [ask EXCEPT ![v] = q] /\ sessions' = sessions \cup {v} /\ monitor' # "off"
    BY <1>2 DEF Verify, KeysInv, KeysTypeOK
  <2> HIDE DEF q
  <2>3. ask[v].version \in 1..MaxKey /\ ask[v].started <= keyNow
    BY <1>1, AskFacts DEF AskInv
  <2>4. keyNow < withdrawn[ask[v].version] + KeyTime
    <3>1. keyNow < keys.expiresAt /\ keys.expiresAt <= withdrawn[ask[v].version] + KeyTime
      BY <1>2, <2>3, KeyFacts, KeyConstants DEF IsCurrent, KeysInv, KeySetBounded
    <3> QED BY <2>3, <3>1, KeyFacts, KeyConstants
  <2>5. AskInv(q)
    BY <2>1, <2>3, <2>4, KeyFacts DEF AskInv
  <2>6. AskFits(v, q, fetching')
    BY <1>1, <2>1, <2>5 DEF AskFits, FetchSteps
  <2>7. sessions' \subseteq Verifiers /\ SessionsInv'
    <3>1. sessions \subseteq Verifiers /\ Verifiers \subseteq Askers /\ SessionsInv
      BY KeyConstants DEF KeysInv, KeysTypeOK
    <3>2. \A w \in sessions' : ask'[w].at = "admitted"
      BY <1>1, <2>1, <2>2, <3>1 DEF SessionsInv, KeysInv, KeysTypeOK
    <3> QED BY <2>2, <3>1, <3>2 DEF SessionsInv, SessionsWatched
  <2> QED BY <1>1, <2>2, <2>6, <2>7, CallKeeps
<1>3. CASE ~IsCurrent(v)
  <2>1. ask' = Refuse(v) /\ UNCHANGED <<sessions, monitor>>
    BY <1>3 DEF Verify
  <2>2. PICK q \in Asks : AskFits(v, q, fetching') /\ ask' = [ask EXCEPT ![v] = q]
    BY <1>1, <2>1, ReturnFits DEF FetchSteps
  <2> QED BY <1>1, <2>1, <2>2, CallStays
<1> QED BY <1>2, <1>3

\* A session ends and its request with it.
LEMMA EndKeeps ==
  ASSUME KeysInv, NEW v \in Verifiers, EndSession(v)
  PROVE  KeysInv' /\ FetchesSpaced
<1>1. UNCHANGED <<keyNow, issuer, withdrawn, keys, fetching, lastFetch, monitor>> /\ ask' = Refuse(v)
      /\ sessions' = sessions \ {v} /\ v \in Askers /\ fetching \in BOOLEAN
      /\ ask[v].at = "admitted"
  BY KeyConstants DEF EndSession, KeysInv, KeysTypeOK, SessionsInv
<1>2. PICK q \in Asks : AskFits(v, q, fetching') /\ ask' = [ask EXCEPT ![v] = q]
  BY <1>1, ReturnFits DEF FetchSteps
<1>3. sessions \subseteq Verifiers /\ Verifiers \subseteq Askers /\ SessionsInv
  BY KeyConstants DEF KeysInv, KeysTypeOK
<1>4. \A w \in sessions' : ask'[w] = ask[w]
  BY <1>1, <1>2, <1>3 DEF KeysInv, KeysTypeOK
<1>5. sessions' \subseteq Verifiers /\ SessionsInv'
  BY <1>1, <1>3, <1>4 DEF SessionsInv, SessionsWatched
<1> QED BY <1>1, <1>2, <1>5, CallKeeps

\* The monitor changes its mind; it stops only without sessions.
LEMMA MonitorKeeps ==
  ASSUME KeysInv, MonitorDecides \/ MonitorAnswered
  PROVE  KeysInv' /\ FetchesSpaced
<1>1. UNCHANGED <<keyNow, issuer, withdrawn, keys, fetching, ask, lastFetch, sessions>>
      /\ (sessions # {} => monitor' # "off")
  BY DEF MonitorDecides, MonitorIdle, MonitorAnswered
<1>2. KeysTypeOK' /\ IssuerLive' /\ KeySetBounded' /\ CooldownKept'
  BY <1>1 DEF KeysInv, KeysTypeOK, IssuerLive, KeySetBounded, CooldownKept
<1>3. FlagOwned' /\ SessionsInv' /\ FetchesSpaced
  BY <1>1 DEF KeysInv, FlagOwned, Fetchers, SessionsInv, SessionsWatched, FetchesSpaced
<1>4. \A a \in Askers : AskInv(ask[a])'
  BY <1>1 DEF KeysInv, AskInv
<1> QED BY <1>2, <1>3, <1>4 DEF KeysInv

\* The provider moves on: what was published until now is withdrawn now.
LEMMA RotateKeeps ==
  ASSUME KeysInv, NEW n \in 0..MaxKey, Rotate(n)
  PROVE  KeysInv' /\ FetchesSpaced
<1> USE KeyConstants
<1>1. UNCHANGED <<keyNow, keys, fetching, ask, lastFetch, sessions, monitor>> /\ issuer' = n
      /\ withdrawn' = [w \in 1..MaxKey |-> IF w = issuer THEN keyNow ELSE withdrawn[w]]
      /\ issuer # n /\ (n > 0 => withdrawn[n] = Never)
  BY DEF Rotate
<1>2. \A w \in 1..MaxKey : withdrawn'[w] = (IF w = issuer THEN keyNow ELSE withdrawn[w])
  BY <1>1
<1>3. keyNow \in 0..Never /\ withdrawn \in [1..MaxKey -> 0..Never]
  BY KeyFacts DEF KeysInv, KeysTypeOK
<1>4. KeysTypeOK'
  <2>1. withdrawn' \in [1..MaxKey -> 0..Never]
    BY <1>1, <1>3
  <2>2. Never' = Never
    BY DEF Never
  <2> QED BY <1>1, <2>1, <2>2 DEF KeysInv, KeysTypeOK
<1>5. IssuerLive'
  BY <1>1, <1>2 DEF IssuerLive, Never
<1>6. KeySetBounded' /\ CooldownKept'
  BY <1>1, <1>2, KeyFacts DEF KeysInv, KeySetBounded, CooldownKept
<1>7. FlagOwned' /\ SessionsInv' /\ FetchesSpaced
  BY <1>1 DEF KeysInv, FlagOwned, Fetchers, SessionsInv, SessionsWatched, FetchesSpaced
<1>8. \A a \in Askers : AskInv(ask[a])'
  <2> SUFFICES ASSUME NEW a \in Askers PROVE AskInv(ask[a])'
    OBVIOUS
  <2>1. AskInv(ask[a]) /\ ask[a].version \in Int /\ ask[a].now \in Int /\ ask[a].started \in Int
    BY AskFacts
  <2>2. \A w \in 1..MaxKey : withdrawn'[w] = withdrawn[w] \/ withdrawn'[w] = keyNow
    BY <1>2
  <2>3. ask[a].at = "fetched" /\ ask[a].version > 0 => ask[a].started <= withdrawn'[ask[a].version]
    BY <2>1, <2>2, KeyFacts DEF AskInv, FetchFailed
  <2>4. ask[a].at = "admitted" => ask[a].now < withdrawn'[ask[a].version] + KeyTime
    BY <2>1, <2>2, KeyFacts DEF AskInv
  <2> QED BY <1>1, <2>1, <2>3, <2>4 DEF AskInv, FetchFailed
<1> QED BY <1>4, <1>5, <1>6, <1>7, <1>8 DEF KeysInv

\* Time passes: nothing that was fresh was so for longer.
LEMMA TickKeeps ==
  ASSUME KeysInv, KeyTick
  PROVE  KeysInv' /\ FetchesSpaced
<1>1. UNCHANGED <<issuer, withdrawn, keys, fetching, ask, lastFetch, sessions, monitor>>
      /\ keyNow < KeyClock /\ keyNow' = keyNow + 1
  BY DEF KeyTick
<1>2. KeysTypeOK'
  BY <1>1, KeyFacts, KeyConstants DEF KeysInv, KeysTypeOK
<1>3. IssuerLive' /\ KeySetBounded' /\ CooldownKept'
  BY <1>1, KeyFacts, KeyConstants DEF KeysInv, IssuerLive, KeySetBounded, CooldownKept
<1>4. FlagOwned' /\ SessionsInv' /\ FetchesSpaced
  BY <1>1 DEF KeysInv, FlagOwned, Fetchers, SessionsInv, SessionsWatched, FetchesSpaced
<1>5. \A a \in Askers : AskInv(ask[a])'
  <2> SUFFICES ASSUME NEW a \in Askers PROVE AskInv(ask[a])'
    OBVIOUS
  <2>1. AskInv(ask[a]) /\ ask[a].version \in Int /\ ask[a].now \in Int /\ ask[a].started \in Int
    BY AskFacts
  <2> QED BY <1>1, <2>1, KeyFacts DEF AskInv
<1> QED BY <1>2, <1>3, <1>4, <1>5 DEF KeysInv

\* There is no set at the start, and nobody fetches.
LEMMA KeysInvInit == KeysInit => KeysInv
<1> SUFFICES ASSUME KeysInit PROVE KeysInv
  OBVIOUS
<1> USE KeyConstants
<1>1. /\ NotAsking \in Asks /\ NotAsking.at = "idle" /\ NotAsking.now = 0 /\ NotAsking.started = 0
  BY DEF NotAsking, Asks, AskSteps, NoKeySet
<1>2. \A a \in Askers : ask[a] = NotAsking
  BY DEF KeysInit
<1>3. /\ keys \in KeySets /\ keys.version = -1 /\ keys.expiresAt = 0 /\ keys.nextRefresh = 0
  BY DEF KeysInit, KeySets, NoKeySet
<1>4. KeysTypeOK
  <2>1. ask \in [Askers -> Asks]
    BY <1>1 DEF KeysInit
  <2>2. Never \in 0..Never /\ withdrawn \in [1..MaxKey -> 0..Never]
    BY KeyBounds DEF KeysInit, Never
  <2>3. keyNow \in 0..KeyClock /\ issuer \in 0..MaxKey /\ lastFetch \in Int
    BY KeyBounds DEF KeysInit
  <2> QED BY <1>3, <2>1, <2>2, <2>3 DEF KeysInit, KeysTypeOK
<1>5. IssuerLive /\ KeySetBounded /\ CooldownKept
  BY <1>3 DEF KeysInit, IssuerLive, KeySetBounded, CooldownKept
<1>6. Fetchers = {} /\ fetching = FALSE /\ sessions = {}
  BY <1>1, <1>2 DEF Fetchers, FetchSteps, KeysInit
<1>7. FlagOwned /\ SessionsInv
  BY <1>6 DEF FlagOwned, SessionsInv, SessionsWatched
<1>8. \A a \in Askers : AskInv(ask[a])
  BY <1>1, <1>2 DEF AskInv, KeysInit
<1> QED BY <1>4, <1>5, <1>7, <1>8 DEF KeysInv

\* The parts of the invariant that the property states.
LEMMA KeysInvSound ==
  ASSUME KeysInv
  PROVE  WithdrawnKeyRefused /\ OneFetch /\ SessionsWatched
<1>1. WithdrawnKeyRefused
  BY KeyConstants DEF WithdrawnKeyRefused, KeysInv, AskInv
<1>2. OneFetch
  <2>1. Fetchers = {a \in Askers : ask[a].at \in {"rechecking", "fetching", "fetched"}}
    BY DEF Fetchers, FetchSteps
  <2>2. Cardinality(Fetchers) <= 1
    <3>1. CASE Fetchers = {}
      BY <3>1, FS_EmptySet
    <3>2. ASSUME NEW a \in Fetchers PROVE Cardinality(Fetchers) <= 1
      <4>1. Fetchers = {a}
        BY DEF KeysInv, FlagOwned
      <4>2. Cardinality({a}) = 1
        BY FS_Singleton
      <4> QED BY <4>1, <4>2
    <3> QED BY <3>1, <3>2
  <2>3. fetching <=> \E a \in Askers : ask[a].at \in {"rechecking", "fetching", "fetched"}
    BY <2>1 DEF KeysInv, FlagOwned
  <2> QED BY <2>1, <2>2, <2>3 DEF OneFetch
<1> QED BY <1>1, <1>2 DEF KeysInv, SessionsInv

\* Remote keys admit no request once their lifetime has passed since the
\* provider withdrew them, are fetched by one caller at a time, a cooldown
\* apart, and are watched while a session relies on them.
THEOREM KeysDiscipline == KeysSpec => KeysDisciplined
<1>1. KeysInv /\ [KeysNext]_keyVars => KeysInv' /\ [FetchesSpaced]_keyVars
  <2> SUFFICES ASSUME KeysInv, [KeysNext]_keyVars PROVE KeysInv' /\ [FetchesSpaced]_keyVars
    OBVIOUS
  <2>1. CASE \E v \in Verifiers : Present(v) \/ CancelFetch(v) \/ Verify(v) \/ VerifyFails(v) \/ EndSession(v)
    BY <2>1, PresentKeeps, CancelKeeps, VerifyKeeps, EndKeeps
  <2>2. CASE \E a \in Askers : LookupKey(a) \/ RaceFetch(a) \/ BeginFetch(a) \/ ReadIssuer(a) \/ PublishKeys(a)
    BY <2>2, LookupKeeps, RaceKeeps, BeginKeeps, ReadKeeps, PublishKeeps
  <2>3. CASE MonitorDecides \/ MonitorAsks \/ MonitorAnswered
    BY <2>3, MonitorKeeps, MonitorAsksKeeps
  <2>4. CASE \E v \in 0..MaxKey : Rotate(v)
    BY <2>4, RotateKeeps
  <2>5. CASE KeyTick
    BY <2>5, TickKeeps
  <2>6. CASE UNCHANGED keyVars
    <3>1. KeysTypeOK' /\ IssuerLive' /\ KeySetBounded' /\ CooldownKept'
      BY <2>6 DEF keyVars, KeysInv, KeysTypeOK, IssuerLive, KeySetBounded, CooldownKept
    <3>2. FlagOwned' /\ SessionsInv'
      BY <2>6 DEF keyVars, KeysInv, FlagOwned, Fetchers, SessionsInv, SessionsWatched
    <3>3. \A a \in Askers : AskInv(ask[a])'
      BY <2>6 DEF keyVars, KeysInv, AskInv
    <3> QED BY <2>6, <3>1, <3>2, <3>3 DEF KeysInv
  <2> QED BY <2>1, <2>2, <2>3, <2>4, <2>5, <2>6 DEF KeysNext
<1>2. KeysInv' => (WithdrawnKeyRefused /\ OneFetch /\ SessionsWatched)'
  BY KeysInvSound, PTL
<1>3. KeysInv /\ [KeysNext]_keyVars => [KeysStep]_keyVars
  BY <1>1, <1>2 DEF KeysStep
<1> QED BY <1>1, <1>3, KeysInvInit, PTL DEF KeysSpec, KeysDisciplined

-----------------------------------------------------------------------------
(* Bearer sessions *)

\* A route that was published: a valid document with its keys prepared.
PublishedRoute(jr) ==
  /\ jr = NewRoute(jr.document, jr.arc, jr.runtime)
  /\ jr.document \in RouteDocuments /\ DocumentValid(jr.document)
  /\ jr.arc \in Nat /\ jr.arc <= publications

\* A route that a request captured is the active one if it has its Arc.
Captured(jr) == PublishedRoute(jr) /\ (jr.arc = jwtRoute.arc => jr = jwtRoute)

\* The key a token names, prepared from the document.
KeyChosen(jwt, key, doc) ==
  /\ key \in PreparedKeys(doc.jwks, doc.algorithms)
  /\ key.kid = jwt.kid /\ key.alg = jwt.alg

\* What the blocking verification established of a token.
Proven(jwt, key, doc) ==
  jwt.signer = key.material /\ jwt.jti \notin doc.revokedIds /\ jwt.iat >= doc.cutoff

\* The deadline of a lease counts from its admission, on the monotonic clock.
Timed(b) ==
  /\ b.admittedMono \in Nat /\ b.admittedWall \in Nat
  /\ b.deadline = b.admittedMono + (b.token.exp + b.captured.document.leeway - b.admittedWall)

SessionInv(b) ==
  /\ b.at \in {"idle", "verifying", "verified", "leased"}
  /\ b.at # "idle" =>
       b.token \in BearerTokens /\ Captured(b.captured) /\ KeyChosen(b.token, b.key, b.captured.document)
  /\ b.at = "verifying" =>
       b.held.token = b.token /\ b.held.key = b.key /\ b.held.document = b.captured.document
  /\ b.at \in {"verified", "leased"} => Proven(b.token, b.key, b.captured.document)
  /\ b.at = "leased" => Timed(b) /\ b.captured.document.scopes \subseteq b.token.scopes

\* What SessionsBounded says of one frame.
FrameBounded(f) ==
  /\ f.carried - f.admittedMono < f.token.exp + f.under.document.leeway - f.admittedWall
  /\ f.under = f.published
  /\ f.token.jti \notin f.under.document.revokedIds /\ f.token.iat >= f.under.document.cutoff
  /\ f.under.document.scopes \subseteq f.token.scopes
  /\ \E i \in DOMAIN f.under.document.jwks :
        /\ f.under.document.jwks[i].material = f.token.signer /\ f.under.document.jwks[i].kid = f.token.kid
        /\ f.under.document.jwks[i].use = "sig" /\ Compatible(f.under.document.jwks[i], f.token.alg)

BearerInv ==
  /\ publications \in Nat /\ wall \in Nat /\ mono \in Nat /\ PublishedRoute(jwtRoute)
  /\ IsFiniteSet(jobs) /\ Cardinality(jobs) <= VerificationSlots
  /\ bearer = [q \in Bearers |-> bearer[q]] /\ frames = [q \in Bearers |-> frames[q]]
  /\ \A q \in Bearers : SessionInv(bearer[q])
  /\ \A q \in Bearers : frames[q] # NoFrame => FrameBounded(frames[q])

\* The record of a published route.
LEMMA RouteFields ==
  ASSUME NEW doc, NEW arc, NEW runtime
  PROVE  LET jr == NewRoute(doc, arc, runtime)
         IN  /\ jr.document = doc /\ jr.arc = arc /\ jr.runtime = runtime
             /\ jr.keys = PreparedKeys(doc.jwks, doc.algorithms)
BY DEF NewRoute

\* A prepared key of a valid document is one of its signing keys, of an
\* algorithm that fits it.
LEMMA ChosenIsSigning ==
  ASSUME NEW jwt, NEW key, NEW doc, DocumentValid(doc), KeyChosen(jwt, key, doc),
         jwt.signer = key.material
  PROVE  \E i \in DOMAIN doc.jwks :
           /\ doc.jwks[i].material = jwt.signer /\ doc.jwks[i].kid = jwt.kid
           /\ doc.jwks[i].use = "sig" /\ Compatible(doc.jwks[i], jwt.alg)
<1>1. PICK i \in DOMAIN doc.jwks :
        /\ AlgorithmOf(doc.jwks[i], doc.algorithms) # "none"
        /\ key = [kid |-> doc.jwks[i].kid, alg |-> AlgorithmOf(doc.jwks[i], doc.algorithms),
                  material |-> doc.jwks[i].material]
  BY DEF KeyChosen, PreparedKeys
<1>2. /\ doc.jwks[i].material = jwt.signer /\ doc.jwks[i].kid = jwt.kid
      /\ jwt.alg = AlgorithmOf(doc.jwks[i], doc.algorithms)
  BY <1>1 DEF KeyChosen
<1>3. doc.jwks[i].use = "sig"
  BY <1>1 DEF AlgorithmOf
<1>4. Compatible(doc.jwks[i], AlgorithmOf(doc.jwks[i], doc.algorithms))
  BY <1>1 DEF DocumentValid, JwksValid, JwkValid
<1> QED BY <1>2, <1>3, <1>4

\* A step that leaves the route alone leaves a session it does not touch alone.
LEMMA SessionKept ==
  ASSUME NEW b, SessionInv(b), UNCHANGED <<jwtRoute, publications>>
  PROVE  SessionInv(b)'
BY DEF SessionInv, Captured, PublishedRoute

\* One session and its frame are replaced.
LEMMA OneSession ==
  ASSUME BearerInv, NEW q \in Bearers, NEW b, SessionInv(b),
         bearer' = [bearer EXCEPT ![q] = b], UNCHANGED <<jwtRoute, publications>>
  PROVE  bearer' = [p \in Bearers |-> bearer'[p]] /\ \A p \in Bearers : SessionInv(bearer[p])'
<1>1. bearer = [p \in Bearers |-> bearer[p]]
  BY DEF BearerInv
<1>2. bearer'[q] = b /\ \A p \in Bearers : p # q => bearer'[p] = bearer[p]
  BY <1>1
<1>3. bearer' = [p \in Bearers |-> bearer'[p]]
  BY <1>1
<1>4. ASSUME NEW p \in Bearers PROVE SessionInv(bearer[p])'
  <2>1. SessionInv(bearer'[p])
    BY <1>2 DEF BearerInv
  <2> QED BY <2>1 DEF SessionInv, Captured, PublishedRoute
<1> QED BY <1>3, <1>4

\* A step that delivers at most one frame keeps the delivered ones bounded.
LEMMA OneFrame ==
  ASSUME BearerInv, NEW q \in Bearers, NEW f, f # NoFrame => FrameBounded(f),
         frames' = [frames EXCEPT ![q] = f]
  PROVE  /\ frames' = [p \in Bearers |-> frames'[p]]
         /\ (\A p \in Bearers : frames[p] # NoFrame => FrameBounded(frames[p]))'
<1>1. frames = [p \in Bearers |-> frames[p]]
  BY DEF BearerInv
<1>2. frames'[q] = f /\ \A p \in Bearers : p # q => frames'[p] = frames[p]
  BY <1>1
<1>3. frames' = [p \in Bearers |-> frames'[p]]
  BY <1>1
<1>4. ASSUME NEW p \in Bearers, frames'[p] # NoFrame PROVE FrameBounded(frames'[p])
  BY <1>2, <1>4 DEF BearerInv
<1> QED BY <1>3, <1>4 DEF NoFrame, FrameBounded

\* The facts that no step of a request touches.
LEMMA FramesKept ==
  ASSUME BearerInv, frames' = frames
  PROVE  /\ frames' = [p \in Bearers |-> frames'[p]]
         /\ (\A p \in Bearers : frames[p] # NoFrame => FrameBounded(frames[p]))'
BY DEF BearerInv, NoFrame, FrameBounded

\* What is known of a session depends on itself and on the active route.
LEMMA SessionsKept ==
  ASSUME BearerInv, UNCHANGED <<bearer, jwtRoute, publications>>
  PROVE  bearer' = [p \in Bearers |-> bearer'[p]] /\ \A p \in Bearers : SessionInv(bearer[p])'
BY DEF BearerInv, SessionInv, Captured, PublishedRoute

\* The active route stays a published one.
LEMMA RouteKept ==
  ASSUME BearerInv, UNCHANGED <<jwtRoute, publications>>
  PROVE  publications' \in Nat /\ PublishedRoute(jwtRoute)'
BY DEF BearerInv, PublishedRoute

\* Running verifications keep their slots.
LEMMA JobsKept ==
  ASSUME BearerInv, jobs' = jobs
  PROVE  (IsFiniteSet(jobs) /\ Cardinality(jobs) <= VerificationSlots)'
BY DEF BearerInv

\* A document is published: an Arc is reused only for the very same route.
LEMMA PublishRouteKeeps ==
  ASSUME BearerInv, NEW doc \in RouteDocuments, PublishRoute(doc)
  PROVE  BearerInv'
<1>1. publications' = publications + 1 /\ publications \in Nat /\ DocumentValid(doc)
      /\ UNCHANGED <<wall, mono, bearer, jobs, frames>>
  BY DEF PublishRoute, BearerInv
<1> DEFINE arc == ReusedArc(doc)
           runtime == IF JwtPart(doc) = JwtPart(jwtRoute.document) THEN jwtRoute.runtime
                      ELSE publications + 1
<1>2. jwtRoute' = NewRoute(doc, arc, runtime)
  BY DEF PublishRoute
<1>3. CASE doc = jwtRoute.document
  <2>1. arc = jwtRoute.arc /\ runtime = jwtRoute.runtime
    BY <1>3 DEF ReusedArc
  <2>2. jwtRoute' = jwtRoute
    BY <1>2, <1>3, <2>1 DEF BearerInv, PublishedRoute
  <2>3. \A jr : PublishedRoute(jr) => PublishedRoute(jr)'
    BY <1>1 DEF PublishedRoute
  <2>4. \A p \in Bearers : SessionInv(bearer[p])'
    BY <1>1, <2>2, <2>3 DEF BearerInv, SessionInv, Captured
  <2>5. PublishedRoute(jwtRoute)'
    BY <2>2, <2>3 DEF BearerInv, PublishedRoute
  <2> QED BY <1>1, <2>4, <2>5, FramesKept, JobsKept DEF BearerInv
<1>4. CASE doc # jwtRoute.document
  <2>1. arc = publications + 1
    BY <1>4 DEF ReusedArc
  <2>2. jwtRoute'.document = doc /\ jwtRoute'.arc = arc /\ jwtRoute'.runtime = runtime
    BY <1>2, RouteFields
  <2>3. PublishedRoute(jwtRoute)'
    BY <1>1, <1>2, <2>1, <2>2 DEF PublishedRoute
  <2>4. \A jr : Captured(jr) => Captured(jr)'
    BY <1>1, <2>1, <2>2 DEF Captured, PublishedRoute
  <2>5. \A p \in Bearers : SessionInv(bearer[p])'
    BY <1>1, <2>4 DEF BearerInv, SessionInv
  <2> QED BY <1>1, <2>3, <2>5, FramesKept, JobsKept DEF BearerInv
<1> QED BY <1>3, <1>4

\* Neither clock is part of what is known of a session: its deadline is fixed.
LEMMA ClocksKeep ==
  ASSUME BearerInv, PassTime \/ SetWallBack
  PROVE  BearerInv'
<1>1. UNCHANGED <<jwtRoute, publications, bearer, jobs, frames>> /\ wall' \in Nat /\ mono' \in Nat
  BY DEF PassTime, SetWallBack, BearerInv
<1> QED BY <1>1, FramesKept, SessionsKept, RouteKept, JobsKept DEF BearerInv

\* A verification starts with the key the token names, if a slot is free.
LEMMA PresentTokenKeeps ==
  ASSUME BearerInv, NEW q \in Bearers, NEW jwt \in BearerTokens, PresentToken(q, jwt)
  PROVE  BearerInv'
<1>1. UNCHANGED <<jwtRoute, publications, wall, mono, frames>> /\ Cardinality(jobs) < VerificationSlots
  BY DEF PresentToken
<1> DEFINE key == CHOOSE k \in KeyFor(jwtRoute.keys, jwt) : TRUE
           job == [owner |-> q, token |-> jwt, runtime |-> jwtRoute.runtime, key |-> key,
                   document |-> jwtRoute.document]
           b == [at |-> "verifying", token |-> jwt, key |-> key, captured |-> jwtRoute, held |-> job]
<1>2. jobs' = jobs \union {job} /\ bearer' = [bearer EXCEPT ![q] = b]
  BY DEF PresentToken
<1>3. key \in KeyFor(jwtRoute.keys, jwt)
  BY DEF PresentToken
<1>4. jwtRoute.keys = PreparedKeys(jwtRoute.document.jwks, jwtRoute.document.algorithms)
  BY RouteFields DEF BearerInv, PublishedRoute
<1>5. KeyChosen(jwt, key, jwtRoute.document)
  BY <1>3, <1>4 DEF KeyFor, KeyChosen
<1>6. b.at = "verifying" /\ b.token = jwt /\ b.key = key /\ b.captured = jwtRoute
      /\ b.held.token = jwt /\ b.held.key = key /\ b.held.document = jwtRoute.document
  OBVIOUS
<1> HIDE DEF b, job, key
<1>7. SessionInv(b)
  BY <1>5, <1>6 DEF BearerInv, SessionInv, Captured
<1>8. IsFiniteSet(jobs') /\ Cardinality(jobs') <= VerificationSlots
  <2>1. IsFiniteSet(jobs) /\ Cardinality(jobs) \in Nat
    BY FS_CardinalityType DEF BearerInv
  <2>2. IsFiniteSet(jobs') /\ Cardinality(jobs') \in {Cardinality(jobs), Cardinality(jobs) + 1}
    BY <1>2, <2>1, FS_AddElement
  <2> QED BY <1>1, <2>1, <2>2, BearerConstants
<1>9. bearer' = [p \in Bearers |-> bearer'[p]] /\ \A p \in Bearers : SessionInv(bearer[p])'
  BY <1>1, <1>2, <1>7, OneSession
<1> QED BY <1>1, <1>8, <1>9, FramesKept, RouteKept DEF BearerInv

\* The blocking task frees its slot and tells the request that still waits.
LEMMA RunVerificationKeeps ==
  ASSUME BearerInv, NEW job \in jobs, RunVerification(job)
  PROVE  BearerInv'
<1>1. UNCHANGED <<jwtRoute, publications, wall, mono, frames>> /\ jobs' = jobs \ {job}
  BY DEF RunVerification
<1>2. IsFiniteSet(jobs') /\ Cardinality(jobs') <= VerificationSlots
  <2>1. IsFiniteSet(jobs) /\ Cardinality(jobs) \in Nat
    BY FS_CardinalityType DEF BearerInv
  <2>2. IsFiniteSet(jobs') /\ Cardinality(jobs') \in Nat /\ Cardinality(jobs') <= Cardinality(jobs)
    BY <1>1, <2>1, FS_Subset, FS_CardinalityType
  <2> QED BY <2>1, <2>2, BearerConstants DEF BearerInv
<1>3. bearer' = [p \in Bearers |-> bearer'[p]]
  BY DEF RunVerification
<1>4. ASSUME NEW p \in Bearers PROVE SessionInv(bearer[p])'
  <2>1. SessionInv(bearer[p])
    BY DEF BearerInv
  <2> DEFINE c == [at |-> "verified", token |-> job.token, key |-> job.key, captured |-> bearer[p].captured]
  <2>2. \/ bearer'[p] = bearer[p]
        \/ bearer'[p] = DeniedBearer
        \/ /\ bearer'[p] = c /\ bearer[p].at = "verifying" /\ bearer[p].held = job
           /\ VerifyToken(job.token, job.key, job.document, wall)
    BY DEF RunVerification
  <2>3. CASE bearer'[p] = bearer[p]
    BY <1>1, <2>1, <2>3 DEF SessionInv, Captured, PublishedRoute
  <2>4. CASE bearer'[p] = DeniedBearer
    BY <2>4 DEF DeniedBearer, NoBearer, SessionInv
  <2>5. CASE /\ bearer'[p] = c /\ bearer[p].at = "verifying" /\ bearer[p].held = job
             /\ VerifyToken(job.token, job.key, job.document, wall)
    <3>1. c.at = "verified" /\ c.token = job.token /\ c.key = job.key /\ c.captured = bearer[p].captured
      OBVIOUS
    <3>2. job.token = bearer[p].token /\ job.key = bearer[p].key
          /\ job.document = bearer[p].captured.document
      BY <2>1, <2>5 DEF SessionInv
    <3> HIDE DEF c
    <3>3. Proven(c.token, c.key, c.captured.document)
      BY <2>5, <3>1, <3>2 DEF VerifyToken, ClaimsValid, Proven
    <3>4. SessionInv(c)
      BY <2>1, <2>5, <3>1, <3>2, <3>3 DEF SessionInv
    <3> QED BY <1>1, <2>5, <3>4 DEF SessionInv, Captured, PublishedRoute
  <2> QED BY <2>2, <2>3, <2>4, <2>5
<1> QED BY <1>1, <1>2, <1>3, <1>4, FramesKept, RouteKept DEF BearerInv

\* The lease's deadline is the token's remaining time, on the monotonic clock.
LEMMA AdmitBearerKeeps ==
  ASSUME BearerInv, NEW q \in Bearers, AdmitBearer(q)
  PROVE  BearerInv'
<1>1. UNCHANGED <<jwtRoute, publications, wall, mono, jobs, frames>> /\ bearer[q].at = "verified"
      /\ SessionInv(bearer[q])
  BY DEF AdmitBearer, BearerInv
<1> DEFINE old == bearer[q]
           doc == bearer[q].captured.document
           b == RouteLease(old, mono + (old.token.exp + doc.leeway - wall))
<1>2. \/ bearer' = [bearer EXCEPT ![q] = DeniedBearer]
      \/ bearer' = [bearer EXCEPT ![q] = b] /\ doc.scopes \subseteq old.token.scopes
  BY DEF AdmitBearer
<1>3. SessionInv(DeniedBearer)
  BY DEF DeniedBearer, NoBearer, SessionInv
<1>4. ASSUME doc.scopes \subseteq old.token.scopes PROVE SessionInv(b)
  <2>1. /\ b.at = "leased" /\ b.token = old.token /\ b.key = old.key /\ b.captured = old.captured
        /\ b.deadline = mono + (old.token.exp + doc.leeway - wall)
        /\ b.admittedMono = mono /\ b.admittedWall = wall
    BY DEF RouteLease
  <2> HIDE DEF b
  <2>2. Timed(b)
    BY <2>1 DEF Timed, BearerInv
  <2> QED BY <1>1, <1>4, <2>1, <2>2 DEF SessionInv
<1>5. bearer' = [p \in Bearers |-> bearer'[p]] /\ \A p \in Bearers : SessionInv(bearer[p])'
  <2> HIDE DEF b, old, doc
  <2> QED BY <1>1, <1>2, <1>3, <1>4, OneSession
<1> QED BY <1>1, <1>5, FramesKept, RouteKept, JobsKept DEF BearerInv

\* A frame is carried under a current lease of the active route.
LEMMA CarryFrameKeeps ==
  ASSUME BearerInv, NEW q \in Bearers, CarryFrame(q)
  PROVE  BearerInv'
<1>1. UNCHANGED <<jwtRoute, publications, wall, mono, bearer, jobs>> /\ bearer[q].at = "leased"
      /\ LeaseValid(bearer[q]) /\ SessionInv(bearer[q])
  BY DEF CarryFrame, BearerInv
<1> DEFINE b == bearer[q]
           f == [admittedMono |-> b.admittedMono, admittedWall |-> b.admittedWall,
                 carried |-> mono, token |-> b.token, published |-> b.captured, under |-> jwtRoute]
<1>2. frames' = [frames EXCEPT ![q] = f]
  BY DEF CarryFrame
<1>3. f.admittedMono = b.admittedMono /\ f.admittedWall = b.admittedWall /\ f.carried = mono
      /\ f.token = b.token /\ f.published = b.captured /\ f.under = jwtRoute
  OBVIOUS
<1> HIDE DEF f
<1>4. b.captured = jwtRoute
  BY <1>1 DEF SessionInv, Captured, LeaseValid
<1>5. mono < b.deadline /\ Timed(b) /\ Proven(b.token, b.key, jwtRoute.document)
      /\ KeyChosen(b.token, b.key, jwtRoute.document) /\ b.token \in BearerTokens
      /\ jwtRoute.document.scopes \subseteq b.token.scopes
      /\ DocumentValid(jwtRoute.document) /\ jwtRoute.document \in RouteDocuments
  BY <1>1, <1>4 DEF SessionInv, Captured, PublishedRoute, LeaseValid, SessionCurrent
<1>6. mono - b.admittedMono < b.token.exp + jwtRoute.document.leeway - b.admittedWall
  <2>1. b.token.exp \in Nat /\ jwtRoute.document.leeway \in Nat /\ mono \in Nat
        /\ b.admittedMono \in Nat /\ b.admittedWall \in Nat
        /\ b.deadline = b.admittedMono + (b.token.exp + jwtRoute.document.leeway - b.admittedWall)
    BY <1>4, <1>5, BearerConstants DEF Timed, BearerInv
  <2> QED BY <1>5, <2>1
<1>7. \E i \in DOMAIN jwtRoute.document.jwks :
        /\ jwtRoute.document.jwks[i].material = b.token.signer /\ jwtRoute.document.jwks[i].kid = b.token.kid
        /\ jwtRoute.document.jwks[i].use = "sig" /\ Compatible(jwtRoute.document.jwks[i], b.token.alg)
  BY <1>5, ChosenIsSigning DEF Proven
<1>8. FrameBounded(f)
  BY <1>3, <1>4, <1>5, <1>6, <1>7 DEF FrameBounded, Proven
<1>9. /\ frames' = [p \in Bearers |-> frames'[p]]
      /\ (\A p \in Bearers : frames[p] # NoFrame => FrameBounded(frames[p]))'
  BY <1>2, <1>8, OneFrame
<1> QED BY <1>1, <1>9, SessionsKept, RouteKept, JobsKept DEF BearerInv

\* A session that ends leaves nothing behind but its running verification.
LEMMA LeavingKeeps ==
  ASSUME BearerInv, NEW q \in Bearers, TerminateSession(q) \/ LeaveBearer(q)
  PROVE  BearerInv'
<1>1. UNCHANGED <<jwtRoute, publications, wall, mono, jobs>>
      /\ bearer' = [bearer EXCEPT ![q] = NoBearer] /\ frames' = [frames EXCEPT ![q] = NoFrame]
  BY DEF TerminateSession, LeaveBearer
<1>2. SessionInv(NoBearer)
  BY DEF NoBearer, SessionInv
<1>3. bearer' = [p \in Bearers |-> bearer'[p]] /\ \A p \in Bearers : SessionInv(bearer[p])'
  BY <1>1, <1>2, OneSession
<1>4. /\ frames' = [p \in Bearers |-> frames'[p]]
      /\ (\A p \in Bearers : frames[p] # NoFrame => FrameBounded(frames[p]))'
  BY <1>1, OneFrame
<1> QED BY <1>1, <1>3, <1>4, RouteKept, JobsKept DEF BearerInv

\* The first route is published and nobody is there.
LEMMA BearerInvInit == BearerInit => BearerInv
<1> SUFFICES ASSUME BearerInit PROVE BearerInv
  OBVIOUS
<1>1. PICK doc \in RouteDocuments : DocumentValid(doc) /\ jwtRoute = NewRoute(doc, 1, 1)
  BY DEF BearerInit
<1>2. PublishedRoute(jwtRoute)
  BY <1>1, RouteFields DEF PublishedRoute, BearerInit
<1>3. \A q \in Bearers : SessionInv(bearer[q]) /\ frames[q] = NoFrame
  BY DEF BearerInit, NoBearer, SessionInv
<1>4. IsFiniteSet(jobs) /\ Cardinality(jobs) <= VerificationSlots
  BY FS_EmptySet, BearerConstants DEF BearerInit
<1> QED BY <1>2, <1>3, <1>4 DEF BearerInit, BearerInv

\* Every frame is carried under the very rules its token was admitted by, for no
\* longer than the token's life as the monotonic clock measures it, and no more
\* verifications run than there are slots.
THEOREM SessionsBoundedAlways == BearerSpec => []SessionsBounded
<1>1. BearerInv /\ [BearerNext]_bearerVars => BearerInv'
  <2> SUFFICES ASSUME BearerInv, [BearerNext]_bearerVars PROVE BearerInv'
    OBVIOUS
  <2>1. CASE \E doc \in RouteDocuments : PublishRoute(doc)
    BY <2>1, PublishRouteKeeps
  <2>2. CASE PassTime \/ SetWallBack
    BY <2>2, ClocksKeep
  <2>3. ASSUME NEW q \in Bearers,
               \/ \E jwt \in BearerTokens : PresentToken(q, jwt)
               \/ AdmitBearer(q) \/ CarryFrame(q) \/ TerminateSession(q) \/ LeaveBearer(q)
        PROVE BearerInv'
    BY <2>3, PresentTokenKeeps, AdmitBearerKeeps, CarryFrameKeeps, LeavingKeeps
  <2>4. CASE \E job \in jobs : RunVerification(job)
    BY <2>4, RunVerificationKeeps
  <2>5. CASE UNCHANGED bearerVars
    BY <2>5, FramesKept, SessionsKept, RouteKept, JobsKept DEF bearerVars, BearerInv
  <2> QED BY <2>1, <2>2, <2>3, <2>4, <2>5 DEF BearerNext
<1>2. BearerInv => SessionsBounded
  BY DEF BearerInv, SessionsBounded, FrameBounded
<1> QED BY <1>1, <1>2, BearerInvInit, PTL DEF BearerSpec
=============================================================================
