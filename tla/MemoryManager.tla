---------------------------- MODULE MemoryManager ----------------------------
(***************************************************************************)
(* The governed memory manager (memory/memory_manager.hpp,                 *)
(* memory_manager.cpp) and the lifecycle table of memory_region.hpp.       *)
(*                                                                         *)
(* mutex_ guards the regions and the per-node usage, backend_call_mutex_   *)
(* each call of the backend; no operation holds both, so an operation that *)
(* needs both is split where it drops one and takes the other.  pc names   *)
(* the next part of each thread's operation and job holds its locals.  The *)
(* backend hands out buffers on a node, or fails; what it keeps of them is *)
(* how often each was freed.  Calls that throw before they change anything *)
(* are stuttering steps.                                                   *)
(***************************************************************************)
EXTENDS Integers

CONSTANTS
  Thread,      \* threads that call the manager
  MemNode,     \* NUMA nodes
  NoNode,      \* NumaNodeId::invalid()
  Requests,    \* the AllocateRequests callers make, of more than zero bytes
  Observed,    \* where the backend may report a buffer to be
  MaxRegion,   \* bound: the last region id
  MaxBuffer    \* bound: the last buffer the backend hands out

ASSUME MemoryConstants ==
  /\ NoNode \notin MemNode
  /\ Requests \subseteq [bytes: Nat \ {0}, intended: MemNode \cup {NoNode},
                          touch: BOOLEAN]
  /\ Observed \subseteq MemNode \cup {NoNode}
  /\ MaxRegion \in Nat
  /\ MaxBuffer \in Nat

VARIABLES
  regions,       \* regions_: id -> region
  node_usage,    \* node_usage_: bytes per node, for the nodes it has entries for
  next_region,   \* next_id_
  mem_watermark, \* watermark_
  next_buffer,   \* the backend's next buffer
  frees,         \* how often each buffer was given back to the backend
  outdated,      \* buffers whose locality an invalidation has overtaken
  pc,            \* the next part of each thread's operation
  job            \* its locals

backendVars == <<next_buffer, frees, outdated>>
memVars == <<regions, node_usage, next_region, mem_watermark, backendVars, pc, job>>

RegionId == 1 .. MaxRegion
BufferId == 1 .. MaxBuffer

(* Buffer 0 is the empty AllocationResult of a failed allocation. *)
NoBuffer == 0
NoRegion == [state |-> "Absent"]

Lifecycle ==
  {"Created", "Reserved", "Allocated", "Active", "MigrationPending", "Migrating",
   "Rebound", "ReleasePending", "Released", "Failed", "Invalidated"}

Region ==
  [state: Lifecycle, generation: Nat, bytes: Nat, node: MemNode \cup {NoNode},
   intended: MemNode \cup {NoNode}, buffer: BufferId \cup {NoBuffer},
   current: BOOLEAN]

IsLive(r) ==
  regions[r].state \in {"Allocated", "Active", "MigrationPending", "Migrating", "Rebound"}

IsReleased(r) == regions[r].state \in {"Released", "Invalidated", "Failed"}

(* can_transition *)
Successors ==
  [Created          |-> {"Reserved", "Invalidated"},
   Reserved         |-> {"Allocated", "Released", "Invalidated"},
   Allocated        |-> {"Active", "Failed", "Invalidated"},
   Active           |-> {"MigrationPending", "ReleasePending", "Invalidated"},
   MigrationPending |-> {"Migrating", "Active", "Failed", "Invalidated"},
   Migrating        |-> {"Rebound", "Failed", "Invalidated"},
   Rebound          |-> {"Active", "ReleasePending", "Invalidated"},
   ReleasePending   |-> {"Released", "Failed"},
   Released         |-> {"Invalidated"},
   Failed           |-> {"Invalidated"},
   Invalidated      |-> {}]

CanTransition(r, to) ==
  regions[r] # NoRegion /\ to \in Successors[regions[r].state]

(* choose_observed_node *)
HomeOf(actual, intended) == IF actual # NoNode THEN actual ELSE intended
Home(r) == HomeOf(regions[r].node, regions[r].intended)

-----------------------------------------------------------------------------
(* node_usage_ under add_node_usage and sub_node_usage: an entry that      *)
(* reaches zero is erased.  A node that is no node is not accounted.       *)
UsageAt(u, n) == IF n \in DOMAIN u THEN u[n] ELSE 0

Add(u, n, bytes) ==
  IF n = NoNode THEN u
  ELSE [m \in DOMAIN u \cup {n} |-> UsageAt(u, m) + IF m = n THEN bytes ELSE 0]

(* Faulty variant: an entry that reaches zero stays. *)
SubKeepingZero(u, n, bytes) ==
  IF n = NoNode THEN u
  ELSE [m \in DOMAIN u |-> u[m] - IF m = n THEN bytes ELSE 0]

Sub(u, n, bytes) ==
  IF n = NoNode THEN u
  ELSE [m \in DOMAIN u \ {k \in {n} : UsageAt(u, k) = bytes} |->
          u[m] - IF m = n THEN bytes ELSE 0]

(* "accounting underflow": thrown once a missing entry was put in as zero. *)
Underflows(u, n, bytes) == n # NoNode /\ bytes > UsageAt(u, n)
Underflown(u, n) == Add(u, n, 0)

-----------------------------------------------------------------------------
Idle == [op |-> "none"]

MemInit ==
  /\ regions = [r \in RegionId |-> NoRegion]
  /\ node_usage = [n \in {} |-> 0]
  /\ next_region = 1
  /\ mem_watermark = 0
  /\ next_buffer = 1
  /\ frees = [b \in BufferId |-> 0]
  /\ outdated = {}
  /\ pc = [t \in Thread |-> "idle"]
  /\ job = [t \in Thread |-> Idle]

Goto(t, step) == pc' = [pc EXCEPT ![t] = step] /\ UNCHANGED job
Return(t) == pc' = [pc EXCEPT ![t] = "idle"] /\ job' = [job EXCEPT ![t] = Idle]

(* backend_.allocate: the next buffer, or BackendError. *)
TakeBuffer ==
  /\ next_buffer <= MaxBuffer
  /\ next_buffer' = next_buffer + 1
  /\ UNCHANGED <<frees, outdated>>

(* backend_.free; the result of a failed allocation is ignored. *)
GiveBack(buffer) ==
  /\ frees' = [b \in BufferId |-> frees[b] + IF b = buffer THEN 1 ELSE 0]
  /\ UNCHANGED <<next_buffer, outdated>>

(* allocate: the backend call.  Where the buffer is observed is up to the  *)
(* backend: it may fall back to another node or know none.                 *)
Allocate(t, req) ==
  /\ pc[t] = "idle"
  /\ next_region <= MaxRegion
  /\ \/ /\ TakeBuffer
        /\ \E node \in Observed :
             job' = [job EXCEPT ![t] =
               [op |-> "allocate", req |-> req, node |-> node, buffer |-> next_buffer]]
     \/ /\ UNCHANGED backendVars
        /\ job' = [job EXCEPT ![t] =
             [op |-> "allocate", req |-> req, node |-> NoNode, buffer |-> NoBuffer]]
  /\ pc' = [pc EXCEPT ![t] = "record"]
  /\ UNCHANGED <<regions, node_usage, next_region, mem_watermark>>

(* allocate: the region is recorded, Failed if the backend failed.  *)
RecordRegion(t) ==
  LET j == job[t]
      failed == j.buffer = NoBuffer
  IN
  /\ pc[t] = "record"
  /\ next_region <= MaxRegion
  /\ next_region' = next_region + 1
  /\ mem_watermark' = mem_watermark + 1
  /\ regions' = [regions EXCEPT ![next_region] =
       [state |-> IF failed THEN "Failed"
                  ELSE IF j.req.touch THEN "Active" ELSE "Allocated",
        generation |-> mem_watermark + 1,
        bytes |-> IF failed THEN 0 ELSE j.req.bytes,
        node |-> j.node, intended |-> j.req.intended, buffer |-> j.buffer,
        current |-> ~failed]]
  /\ node_usage' = IF failed THEN node_usage
                   ELSE Add(node_usage, HomeOf(j.node, j.req.intended), j.req.bytes)
  /\ Return(t)
  /\ UNCHANGED backendVars

(* Faulty variant: only the transition table is asked; it lets a released  *)
(* region be invalidated.                                                  *)
ReleaseAllowedAgain(r) ==
  CanTransition(r, "Released") \/ CanTransition(r, "Invalidated")

(* release, under mutex_: every check, the accounting, the new state. *)
ReleaseAllowed(r) ==
  /\ regions[r] # NoRegion
  /\ ~IsReleased(r)
  /\ CanTransition(r, "Released") \/ CanTransition(r, "Invalidated")

Release(t, r, expected) ==
  /\ pc[t] = "idle"
  /\ ReleaseAllowed(r)
  /\ \A g \in expected : g = regions[r].generation
  /\ IF Underflows(node_usage, Home(r), regions[r].bytes)
     THEN /\ node_usage' = Underflown(node_usage, Home(r))
          /\ UNCHANGED <<regions, pc, job>>
     ELSE /\ node_usage' = Sub(node_usage, Home(r), regions[r].bytes)
          /\ regions' = [regions EXCEPT ![r].state = "Released", ![r].current = FALSE]
          /\ pc' = [pc EXCEPT ![t] = "free"]
          /\ job' = [job EXCEPT ![t] = [op |-> "release", buffer |-> regions[r].buffer]]
  /\ UNCHANGED <<next_region, mem_watermark, backendVars>>

(* release, under backend_call_mutex_. *)
FreeReleased(t) ==
  /\ pc[t] = "free"
  /\ GiveBack(job[t].buffer)
  /\ Return(t)
  /\ UNCHANGED <<regions, node_usage, next_region, mem_watermark>>

(* transition: what becomes of the regions; a disallowed one throws. *)
Transition(r, to) ==
  /\ CanTransition(r, to)
  /\ regions' = [regions EXCEPT ![r].state = to]

(* invalidate_locality_stale *)
InvalidateLocality ==
  /\ regions' = [r \in RegionId |->
       IF IsLive(r) THEN [regions[r] EXCEPT !.current = FALSE] ELSE regions[r]]
  /\ outdated' = 1 .. next_buffer - 1
  /\ UNCHANGED <<node_usage, next_region, mem_watermark, next_buffer, frees, pc, job>>

-----------------------------------------------------------------------------
(* Faulty variant: a region in any live state is claimed. *)
ClaimableAlways(r) == regions[r] # NoRegion /\ ~IsReleased(r)

(* governed_reallocate(region, target).  The region is claimed, and the    *)
(* locals snapshot it; a state that does not allow it throws to execute.   *)
Claimable(r) ==
  regions[r] # NoRegion /\ ~IsReleased(r) /\ CanTransition(r, "Migrating")

ClaimRegion(t) ==
  LET r == job[t].region IN
  /\ pc[t] = "claim"
  /\ Claimable(r)
  /\ regions' = [regions EXCEPT ![r].state = "Migrating"]
  /\ job' = [job EXCEPT ![t].old = regions[r].buffer, ![t].home = Home(r)]
  /\ pc' = [pc EXCEPT ![t] = "obtain"]
  /\ UNCHANGED <<node_usage, next_region, mem_watermark, backendVars>>

ClaimThrows(t) ==
  /\ pc[t] = "claim"
  /\ ~Claimable(job[t].region)
  /\ Return(t)
  /\ UNCHANGED <<regions, node_usage, next_region, mem_watermark, backendVars>>

(* The strict allocation at the target, and the copy: copy_ok is never set *)
(* to false.                                                               *)
ObtainTarget(t) ==
  /\ pc[t] = "obtain"
  /\ TakeBuffer
  /\ job' = [job EXCEPT ![t].new = next_buffer]
  /\ pc' = [pc EXCEPT ![t] = "vacate"]
  /\ UNCHANGED <<regions, node_usage, next_region, mem_watermark>>

(* Faulty variant: without target memory the old buffer is given up too. *)
TargetExhaustedIgnored(t) ==
  /\ pc[t] = "obtain"
  /\ Goto(t, "vacate")
  /\ UNCHANGED <<regions, node_usage, next_region, mem_watermark, backendVars>>

TargetExhausted(t) ==
  /\ pc[t] = "obtain"
  /\ Goto(t, "retain")
  /\ UNCHANGED <<regions, node_usage, next_region, mem_watermark, backendVars>>

(* Faulty variant: the region is left Migrating. *)
RetainNothing(t) ==
  /\ pc[t] = "retain"
  /\ Goto(t, "settle")
  /\ UNCHANGED <<regions, node_usage, next_region, mem_watermark, backendVars>>

(* No target memory: the region goes back to Active if still Migrating. *)
RetainOriginal(t) ==
  LET r == job[t].region IN
  /\ pc[t] = "retain"
  /\ regions' = IF regions[r].state = "Migrating"
                THEN [regions EXCEPT ![r].state = "Active"]
                ELSE regions
  /\ Goto(t, "settle")
  /\ UNCHANGED <<node_usage, next_region, mem_watermark, backendVars>>

(* Faulty variant: the old buffer is not freed. *)
VacateNothing(t) ==
  /\ pc[t] = "vacate"
  /\ Goto(t, "commit")
  /\ UNCHANGED <<regions, node_usage, next_region, mem_watermark, backendVars>>

(* The old buffer is freed before the region points to the new one... *)
VacateOld(t) ==
  /\ pc[t] = "vacate"
  /\ GiveBack(job[t].old)
  /\ Goto(t, "commit")
  /\ UNCHANGED <<regions, node_usage, next_region, mem_watermark>>

(* Faulty variant: the generation stays. *)
CommitSameGeneration(t) ==
  LET r == job[t].region
      j == job[t]
  IN
  /\ pc[t] = "commit"
  /\ ~Underflows(node_usage, j.home, regions[r].bytes)
  /\ regions' = [regions EXCEPT ![r] =
       [state |-> "Rebound", generation |-> @.generation, bytes |-> @.bytes,
        node |-> j.target, intended |-> j.target, buffer |-> j.new, current |-> TRUE]]
  /\ node_usage' = Add(Sub(node_usage, j.home, regions[r].bytes),
                       j.target, regions[r].bytes)
  /\ job' = [job EXCEPT ![t].committed = TRUE]
  /\ pc' = [pc EXCEPT ![t] = "settle"]
  /\ UNCHANGED <<next_region, mem_watermark, backendVars>>

(* ... whatever has become of the region meanwhile. *)
CommitMove(t) ==
  LET r == job[t].region
      j == job[t]
  IN
  /\ pc[t] = "commit"
  /\ ~Underflows(node_usage, j.home, regions[r].bytes)
  /\ regions' = [regions EXCEPT ![r] =
       [state |-> "Rebound", generation |-> @.generation + 1, bytes |-> @.bytes,
        node |-> j.target, intended |-> j.target, buffer |-> j.new, current |-> TRUE]]
  /\ node_usage' = Add(Sub(node_usage, j.home, regions[r].bytes),
                       j.target, regions[r].bytes)
  /\ job' = [job EXCEPT ![t].committed = TRUE]
  /\ pc' = [pc EXCEPT ![t] = "settle"]
  /\ UNCHANGED <<next_region, mem_watermark, backendVars>>

CommitThrows(t) ==
  LET r == job[t].region IN
  /\ pc[t] = "commit"
  /\ Underflows(node_usage, job[t].home, regions[r].bytes)
  /\ node_usage' = Underflown(node_usage, job[t].home)
  /\ Return(t)
  /\ UNCHANGED <<regions, next_region, mem_watermark, backendVars>>
=============================================================================
